---------------------------- MODULE Spec2Model ----------------------------
(***************************************************************************)
(* Model of the cache-or-refresh data loader of the Batch Enrollment       *)
(* Dashboard (src/dashboard_app.py): load_data_from_sheets, its process-   *)
(* wide cache (DATA_CACHE, CACHE_TIMESTAMP) and the normalisation of the   *)
(* worksheets it reads.                                                    *)
(*                                                                         *)
(* A worksheet is what gspread's get_all_values() returns: a sequence of   *)
(* rows, each a sequence of string cells.  A DataFrame is a record         *)
(*   [cols |-> sequence of column names, rows |-> sequence of rows]        *)
(* where a row is a function from the column names to cell values; a       *)
(* table that went through lines 147-153 also has the field                *)
(*   categories |-> the categories of each of its categorical columns.     *)
(* DataFrames live in a heap of objects, so that sharing between the       *)
(* cached table and the tables handed to callers is visible.               *)
(***************************************************************************)
EXTENDS Integers, Sequences, FiniteSets, TLC

(***************************************************************************)
(* Configuration (lines 27-34)                                             *)
(***************************************************************************)
WORKSHEET_NAMES == <<"Foundation Data", "CUET UG Data">>

CACHE_DURATION == 300

\* The result of DATA_CACHE / CACHE_TIMESTAMP before the first store.
None == -1

(***************************************************************************)
(* Bounds of the model                                                     *)
(***************************************************************************)
\* The wall clock runs from 0 to MaxTime seconds, in steps of TickStep.
MaxTime == 400

TickStep == 100

\* Number of request threads that may be inside the loader at once (SpecConc).
NumProcs == 2

Procs == 1..NumProcs

(***************************************************************************)
(* Cell values                                                             *)
(***************************************************************************)
\* pandas' missing value in a column of strings (a column a sheet lacks).
NaN == "<NaN>"

\* pandas' missing value in a datetime column.
NaT == -1

\* The fixed schema of the empty table (lines 120-125, 168-173, 194-199).
SchemaColumns ==
  << "_id", "batchid", "plan", "converteddate", "name", "net_amount",
     "coupondiscount", "couponcode", "couponid", "donationamount",
     "Exam_2", "order_type", "batch_eligibility", "startdate", "ADD_ON_STORE",
     "leader_fin", "type_2" >>

\* Mutant: pd.DataFrame() as on line 216, an empty table without the schema.
EmptyFrame == [cols |-> << >>, rows |-> << >>]

\* pd.DataFrame(columns=[...]): no rows, the 17 schema columns.
EmptySchema == [cols |-> SchemaColumns, rows |-> << >>]

DateCols == {"converteddate", "startdate"}

numeric_cols == {"net_amount", "coupondiscount", "donationamount", "ADD_ON_STORE"}

string_cols == {"name", "plan", "Exam_2", "order_type", "batch_eligibility",
                "couponcode", "couponid", "leader_fin", "type_2"}

(***************************************************************************)
(* Generic helpers                                                         *)
(***************************************************************************)
SeqToSet(s) == {s[i] : i \in 1..Len(s)}

MinOf(S) == CHOOSE x \in S : \A y \in S : x <= y

\* Position of the first occurrence of c in the sequence s.
IndexOf(s, c) == MinOf({i \in 1..Len(s) : s[i] = c})

RECURSIVE FlattenSeq(_)
FlattenSeq(ss) == IF ss = << >> THEN << >> ELSE Head(ss) \o FlattenSeq(Tail(ss))

\* s followed by the elements of t that s lacks, in t's order.
RECURSIVE AppendNew(_, _)
AppendNew(s, t) ==
  IF t = << >> THEN s
  ELSE AppendNew(IF Head(t) \in SeqToSet(s) THEN s ELSE Append(s, Head(t)), Tail(t))

(***************************************************************************)
(* String conversions, by what they do on the cells the model uses         *)
(***************************************************************************)
\* The header keywords of line 91.
Keywords == {"batchid", "_id", "name", "converteddate"}

\* The lower-case letter of each upper-case letter.
LowerCase ==
  [A |-> "a", B |-> "b", C |-> "c", D |-> "d", E |-> "e", F |-> "f", G |-> "g",
   H |-> "h", I |-> "i", J |-> "j", K |-> "k", L |-> "l", M |-> "m", N |-> "n",
   O |-> "o", P |-> "p", Q |-> "q", R |-> "r", S |-> "s", T |-> "t", U |-> "u",
   V |-> "v", W |-> "w", X |-> "x", Y |-> "y", Z |-> "z"]

\* str.lower() (line 91).
RECURSIVE Lower(_)
Lower(text) ==
  IF text = "" THEN ""
  ELSE LET c == SubSeq(text, 1, 1)
       IN  (IF c \in DOMAIN LowerCase THEN LowerCase[c] ELSE c)
             \o Lower(SubSeq(text, 2, Len(text)))

\* The body of repr() of a str: a line break is written as the two
\* characters backslash and n, a backslash as two backslashes.
RECURSIVE Escape(_)
Escape(text) ==
  IF text = "" THEN ""
  ELSE LET c == SubSeq(text, 1, 1)
       IN  (IF c = "\n" THEN "\\n" ELSE IF c = "\\" THEN "\\\\" ELSE c)
             \o Escape(SubSeq(text, 2, Len(text)))

\* str(row) of a list of str (line 91): "['a', 'b']".
RECURSIVE JoinReprs(_)
JoinReprs(row) ==
  IF row = << >> THEN ""
  ELSE "'" \o Escape(Head(row)) \o "'"
         \o (IF Tail(row) = << >> THEN "" ELSE ", " \o JoinReprs(Tail(row)))

StrOfRow(row) == "[" \o JoinReprs(row) \o "]"

\* `word in text` for two str (line 91).
Contains(text, word) ==
  \E i \in 1..(Len(text) - Len(word) + 1) : SubSeq(text, i, i + Len(word) - 1) = word

\* str.strip() on a column name (line 101).
Strip(c) == IF c = "batch_name " THEN "batch_name" ELSE c

\* A pandas Timestamp, counted in hours: `hour` o'clock on day `day` of
\* January 2024.
Timestamp(day, hour) == day * 24 + hour

\* pd.to_datetime(cell, errors='coerce') (lines 133, 136, 1045): the Timestamp
\* the cell denotes (midnight when it gives no time of day), or NaT.
ParseDate(cell) ==
  CASE cell = "2024-01-05" -> Timestamp(5, 0)
    [] cell = "2024-01-06" -> Timestamp(6, 0)
    [] cell = "2024-01-06 15:00:00" -> Timestamp(6, 15)
    [] cell = "2024-01-13 09:00:00" -> Timestamp(13, 9)
    [] cell = "2024-01-13 15:00:00" -> Timestamp(13, 15)
    [] cell = "2024-01-14" -> Timestamp(14, 0)
    [] cell = "2024-01-01" -> Timestamp(1, 0)
    [] cell = "2024-01-20" -> Timestamp(20, 0)
    [] OTHER -> NaT

\* pd.to_numeric(cell, errors='coerce').fillna(0) (line 142).
ParseNumFill0(cell) ==
  CASE cell = "100" -> 100
    [] cell = "200" -> 200
    [] cell = "-5" -> -5
    [] OTHER -> 0


(***************************************************************************)
(* The remote spreadsheet: the worksheets a fetch may find                 *)
(***************************************************************************)
SheetFoundation ==
  << <<"name", "converteddate", "net_amount">>,
     <<"B1", "2024-01-05", "100">>,
     <<"B2", "not a date", "abc">> >>

SheetCuet ==
  << <<"Enrollment report", "", "">>,
     <<"batch_name ", "converteddate", "net_amount">>,
     <<"B2", "2024-01-06", "-5">>,
     <<"", "", "">> >>

SheetNoDate ==
  << <<"name", "net_amount">>,
     <<"B3", "200">>,
     <<"", "">> >>

SheetHeaderOnly == << <<"name", "converteddate", "net_amount">> >>

\* A worksheet whose first row is a title with a line break in a cell.
SheetRegion ==
  << <<"Region:\nAmericas", "Q1", "2024">>,
     <<"name", "converteddate", "net_amount">>,
     <<"B4", "2024-01-05", "100">> >>

SheetNoRows == << >>

\* What each worksheet of WORKSHEET_NAMES may hold when it is read.
Worksheets ==
  << {SheetFoundation, SheetNoDate, SheetHeaderOnly, SheetRegion},
     {SheetCuet, SheetNoDate, SheetNoRows} >>

\* A worksheet with every column the page reads.
SheetSales ==
  << <<"name", "converteddate", "net_amount", "Exam_2", "plan", "order_type", "leader_fin">>,
     <<"B1", "2024-01-05", "100", "JEE", "Pro", "PRIMARY", "L1">>,
     <<"B1", "2024-01-06 15:00:00", "200", "JEE", "Lite", "UPGRADE", "L1">>,
     <<"B2", "2024-01-13 09:00:00", "100", "NEET", "Pro", "PRIMARY", "L2">>,
     <<"B2", "2024-01-13 15:00:00", "200", "NEET", "Pro", "PRIMARY", "L2">>,
     <<"B3", "2024-01-14", "100", "JEE", "Lite", "PRIMARY", "L1">> >>

\* The columns of the data model that a worksheet may lack.
OptionalColumns == {"Exam_2", "net_amount", "order_type", "leader_fin", "plan"}

\* The worksheet `data` without its column c.
WithoutColumn(data, c) ==
  LET keep == SelectSeq([j \in 1..Len(data[1]) |-> j], LAMBDA j : data[1][j] # c)
  IN  [i \in 1..Len(data) |-> [k \in 1..Len(keep) |-> data[i][keep[k]]]]

\* A worksheet without batch names.
SheetAnon ==
  << <<"converteddate", "net_amount", "Exam_2", "plan", "order_type", "leader_fin">>,
     <<"2024-01-06", "100", "JEE", "Pro", "PRIMARY", "L1">> >>

\* A worksheet of sixteen batches: batch k has two enrollments when k is a
\* multiple of four and one otherwise.
BatchNames ==
  << "N01", "N02", "N03", "N04", "N05", "N06", "N07", "N08",
     "N09", "N10", "N11", "N12", "N13", "N14", "N15", "N16" >>

SheetManyBatches ==
  << <<"name", "converteddate", "net_amount", "Exam_2">> >>
  \o [k \in 1..Len(BatchNames) |-> <<BatchNames[k], "2024-01-05", "100", "JEE">>]
  \o [k \in 1..(Len(BatchNames) \div 4) |-> <<BatchNames[4 * k], "2024-01-06", "100", "JEE">>]

\* A worksheet whose batch names are codes.
SheetCodes ==
  << <<"name", "converteddate", "net_amount", "Exam_2">>,
     <<"007", "2024-01-05", "100", "JEE">>,
     <<"7", "2024-01-06", "100", "JEE">> >>

\* A worksheet with more enrollments of one batch.
SheetRepeat ==
  << SheetSales[1],
     <<"B1", "2024-01-05", "100", "JEE", "Pro", "PRIMARY", "L1">>,
     <<"B1", "2024-01-06", "100", "JEE", "Pro", "PRIMARY", "L1">> >>

\* What the two worksheets may hold when update_dashboard loads them.
PageWorksheets ==
  << {SheetSales, SheetManyBatches, SheetCodes}
       \cup {WithoutColumn(SheetSales, c) : c \in OptionalColumns},
     {SheetAnon, SheetRepeat} >>


(***************************************************************************)
(* One worksheet: header detection and DataFrame creation (lines 85-111)   *)
(***************************************************************************)
\* Line 91: `row and any(col in str(row).lower() for col in [...])`: the row
\* is non-empty and the lower-cased text of the list holds a keyword.
RowHasKeyword(row) ==
  LET text == Lower(StrOfRow(row))
  IN  Len(row) > 0 /\ \E col \in Keywords : Contains(text, col)

\* Lines 89-94: index (1-based) of the first row holding a keyword; the first
\* row when no row holds one (header_row stays 0).
FindHeaderRow(data) ==
  LET hits == {i \in 1..Len(data) : RowHasKeyword(data[i])}
  IN  IF hits = {} THEN 1 ELSE MinOf(hits)

\* Every worksheet a fetch of the model may read, and the header row that
\* lines 89-94 find in each of them.
WorksheetData ==
  UNION {Worksheets[k] : k \in 1..Len(Worksheets)}
    \cup UNION {PageWorksheets[k] : k \in 1..Len(PageWorksheets)}

HeaderRows == [data \in WorksheetData |-> FindHeaderRow(data)]

\* header_row after the loop of lines 90-94 for the worksheet `data`.
header_row(data) ==
  IF data \in WorksheetData THEN HeaderRows[data] ELSE FindHeaderRow(data)

\* Lines 104-109: column name variations.
AddAlias(df, from, to) ==
  [cols |-> Append(df.cols, to),
   rows |-> [i \in 1..Len(df.rows) |->
               [c \in SeqToSet(df.cols) \cup {to} |->
                  IF c = to THEN df.rows[i][from] ELSE df.rows[i][c]]]]

HandleColumnVariations(df) ==
  LET has(c) == c \in SeqToSet(df.cols)
      d1 == IF has("batch_name") /\ ~has("name") THEN AddAlias(df, "batch_name", "name") ELSE df
      has1(c) == c \in SeqToSet(d1.cols)
  IN  IF has1("exam_2") /\ ~has1("Exam_2") THEN AddAlias(d1, "exam_2", "Exam_2")
      ELSE IF has1("exam") /\ ~has1("Exam_2") THEN AddAlias(d1, "exam", "Exam_2")
      ELSE d1

\* Line 97 raises IndexError on data[header_row] when the worksheet has no row.
SheetRaises(data) == Len(data) = 0

\* Lines 97-109: the DataFrame of one worksheet (columns stripped, line 101).
SheetFrame(data) ==
  LET h    == header_row(data)
      cols == [j \in 1..Len(data[h]) |-> Strip(data[h][j])]
      body == SubSeq(data, h + 1, Len(data))
      raw  == [cols |-> cols,
               rows |-> [i \in 1..Len(body) |->
                           [c \in SeqToSet(cols) |-> body[i][IndexOf(cols, c)]]]]
  IN  HandleColumnVariations(raw)

(***************************************************************************)
(* The worksheet loop (lines 79-115)                                       *)
(*                                                                         *)
(* reads[k] is what reading worksheet k gives: [ok |-> FALSE] when         *)
(* spreadsheet.worksheet / get_all_values raises, else the rows.           *)
(***************************************************************************)
\* Whether worksheet k ends in `all_dfs.append(sheet_df)` (line 111).
SheetLoaded(read) == read.ok /\ ~SheetRaises(read.data)

\* Mutant: `break` in place of `continue`, the worksheets that follow are lost.
AbortOnSheetError(rest) == << >>

\* What the except branch of a failing worksheet does to the loop: `continue`
\* (line 115) keeps the worksheets that follow.
AfterSheetError(rest) == rest

RECURSIVE LoadAllSheets(_)
LoadAllSheets(reads) ==
  IF reads = << >> THEN << >>
  ELSE IF SheetLoaded(Head(reads))
       THEN <<SheetFrame(Head(reads).data)>> \o LoadAllSheets(Tail(reads))
       ELSE LoadAllSheets(AfterSheetError(Tail(reads)))

\* pd.concat(all_dfs, ignore_index=True) (line 127): union of the columns in
\* order of first appearance, a missing cell is NaN.
Concat(dfs) ==
  LET cols == FlattenSeq([k \in 1..Len(dfs) |-> dfs[k].cols])
      ucols == AppendNew(<< >>, cols)
      widen(df) == [i \in 1..Len(df.rows) |->
                      [c \in SeqToSet(ucols) |->
                         IF c \in SeqToSet(df.cols) THEN df.rows[i][c] ELSE NaN]]
  IN  [cols |-> ucols, rows |-> FlattenSeq([k \in 1..Len(dfs) |-> widen(dfs[k])])]

(***************************************************************************)
(* Normalisation of the combined table (lines 131-163)                     *)
(***************************************************************************)
\* Lines 132-144: dates to datetime, monetary columns to numbers.
CoerceTypes(df) ==
  [cols |-> df.cols,
   rows |-> [i \in 1..Len(df.rows) |->
               [c \in SeqToSet(df.cols) |->
                  IF c \in DateCols THEN ParseDate(df.rows[i][c])
                  ELSE IF c \in numeric_cols THEN ParseNumFill0(df.rows[i][c])
                  ELSE df.rows[i][c]]]]

\* Line 152: df[col].nunique() / len(df) divides by zero when the combined
\* table has a string column and no row.
CategoryRaises(df) == Len(df.rows) = 0 /\ SeqToSet(df.cols) \cap string_cols # {}

\* df[col].unique() without the missing value: the values of the column in
\* the order of their first appearance.
Uniques(rows, col) ==
  AppendNew(<< >>, SelectSeq([i \in 1..Len(rows) |-> rows[i][col]], LAMBDA v : v # NaN))

\* df[col].nunique() (line 152).
nunique(rows, col) == Len(Uniques(rows, col))

\* Lines 147-153: a column of string_cols (dtype object) in which fewer than
\* half of the rows hold a value of their own becomes categorical; its
\* categories are the values it holds at that moment, before line 156 and
\* line 161 remove rows, and they stay with the column when rows are removed
\* later. `categories` gives them per categorical column (their order is not
\* modelled: first appearance stands for the sorted order of pandas).
Categorize(df) ==
  LET categorical == {c \in SeqToSet(df.cols) \cap string_cols :
                        Len(df.rows) > 0 /\ 2 * nunique(df.rows, c) < Len(df.rows)}
  IN  [cols |-> df.cols, rows |-> df.rows,
       categories |-> [c \in categorical |-> Uniques(df.rows, c)]]

\* The categories of column col of table t; none when the column is not
\* categorical.
Categories(t, col) ==
  IF "categories" \in DOMAIN t
  THEN IF col \in DOMAIN t.categories THEN t.categories[col] ELSE << >>
  ELSE << >>

\* Whether a cell is missing (NaN / NaT) after coercion.
IsNA(c, v) ==
  IF c \in DateCols THEN v = NaT
  ELSE IF c \in numeric_cols THEN FALSE
  ELSE v = NaN

\* Line 156: df.dropna(how='all').
DropAllNA(df) ==
  [df EXCEPT !.rows = SelectSeq(df.rows, LAMBDA r : \E c \in SeqToSet(df.cols) : ~IsNA(c, r[c]))]

\* Mutant: the rows with a NaT converteddate are kept.
KeepInvalidDates(df) == df

\* Lines 159-161: rows with a NaT converteddate are removed when the column exists.
DropInvalidDates(df) ==
  IF "converteddate" \in SeqToSet(df.cols)
  THEN [df EXCEPT !.rows = SelectSeq(df.rows, LAMBDA r : r["converteddate"] # NaT)]
  ELSE df

\* Lines 127-163, when nothing raises.
Normalize(dfs) == DropInvalidDates(DropAllNA(Categorize(CoerceTypes(Concat(dfs)))))

\* Mutant: line 166 never finds the table empty.
HasRowsAlways(df) == FALSE

\* Line 166: `if len(df) == 0`.
NoDataFound(df) == Len(df.rows) = 0

\* The outcome of lines 79-188 for the given worksheet reads:
\*   "nosheets" (line 118), "error" (the except of line 190),
\*   "norows" (line 166), "ok" (line 176 is reached with table df).
FetchResult(reads) ==
  LET all_dfs == LoadAllSheets(reads)
  IN  IF all_dfs = << >> THEN [kind |-> "nosheets", df |-> EmptySchema]
      ELSE IF CategoryRaises(Concat(all_dfs)) THEN [kind |-> "error", df |-> EmptySchema]
      ELSE IF NoDataFound(Normalize(all_dfs)) THEN [kind |-> "norows", df |-> EmptySchema]
      ELSE [kind |-> "ok", df |-> Normalize(all_dfs)]

\* What one read of one worksheet may return: its rows, or an error (line 86).
ReadOutcomes(k) == {[ok |-> TRUE, data |-> w] : w \in Worksheets[k]}
                     \cup {[ok |-> FALSE, data |-> << >>]}

RemoteReads == {r \in [1..Len(WORKSHEET_NAMES) -> UNION {ReadOutcomes(k) : k \in 1..Len(WORKSHEET_NAMES)}] :
                  \A k \in 1..Len(WORKSHEET_NAMES) : r[k] \in ReadOutcomes(k)}


(***************************************************************************)
(* Credentials (lines 40-57)                                               *)
(***************************************************************************)
CredentialSources == {"absent", "valid", "malformed"}

\* TRUE when get_google_credentials returns, FALSE when it raises: a valid
\* GOOGLE_CREDENTIALS blob is used (line 48); a malformed one is reported and
\* the local file is tried (lines 49-55); with neither, line 57 raises.
get_google_credentials(env, file) ==
  IF env = "valid" THEN TRUE
  ELSE IF file = "valid" THEN TRUE
  ELSE FALSE

(***************************************************************************)
(* State                                                                   *)
(***************************************************************************)
VARIABLES
  now,             \* time.time(), in seconds
  DATA_CACHE,      \* line 32: the cached DataFrame object, or None
  CACHE_TIMESTAMP, \* line 33: the time of the cached fetch, or None
  heap,            \* the DataFrame objects: object id -> table
  pc,              \* per thread: where it is in load_data_from_sheets
  force_refresh,   \* per thread: the argument of the call
  current_time,    \* per thread: the local of line 64
  df,              \* per thread: the local df (line 127), then the table the caller holds
  reads,           \* per thread: what the worksheet reads of this call gave
  kind,            \* per thread: how the call ended
  raised,          \* per thread: the call ended by propagating an exception
  retval,          \* per thread: the table the call returned, as returned
  entry,           \* per thread: the cache as it was when the call began
  at_entry,        \* the sequential caller: the globals of lines 32-33 when its call began
  prev,            \* per thread: its previous call
  cachedTable,     \* the table as stored by the last execution of line 176
  cacheTag,        \* the fetch that wrote DATA_CACHE
  tsTag,           \* the fetch that wrote CACHE_TIMESTAMP
  seenTag,         \* per thread: the fetch whose timestamp line 66 read
  servedTag,       \* per thread: the fetch whose table line 68 copied
  nstores,         \* per thread: parity of the number of its stores
  global_df,       \* line 677: the table update_dashboard loaded into the global df
  selection,       \* the inputs of the last update_dashboard: dates and filters
  filtered_df,     \* lines 690-707: the filtered table of the last update_dashboard
  outputs,         \* what the last update_dashboard gave the page, or that it raised
  download         \* what the last export callback sent

\* The state of load_data_from_sheets and of its callers.
loaderVars == << now, DATA_CACHE, CACHE_TIMESTAMP, heap, pc, force_refresh, current_time,
                 df, reads, kind, raised, retval, entry, at_entry, prev, cachedTable, cacheTag,
                 tsTag, seenTag, servedTag, nstores >>

\* The state of the page: update_dashboard and the export callbacks.
dashVars == << global_df, selection, filtered_df, outputs, download >>

vars == << loaderVars, dashVars >>

\* Object ids: the cached table and one table per thread.
Ids == 0..NumProcs

\* The content of an object nothing refers to.
FreeCell == [cols |-> << >>, rows |-> << >>]

NoReads == << >>

NoCall == [valid |-> FALSE, t |-> 0, force |-> FALSE, entry |-> "fresh", kind |-> "none"]

\* The globals of lines 32-33 with the table that DATA_CACHE refers to.
Globals == [cache |-> DATA_CACHE,
            table |-> IF DATA_CACHE = None THEN FreeCell ELSE heap[DATA_CACHE],
            timestamp |-> CACHE_TIMESTAMP]

NoGlobals == [cache |-> None, table |-> FreeCell, timestamp |-> None]

\* The cache as a call finds it at time t: EMPTY, or WARM and fresh or expired.
CacheState(t) ==
  IF DATA_CACHE = None \/ CACHE_TIMESTAMP = None THEN "empty"
  ELSE IF t - CACHE_TIMESTAMP >= 300 THEN "expired"
  ELSE "fresh"

LoaderInit ==
  /\ now = 0
  /\ DATA_CACHE = None
  /\ CACHE_TIMESTAMP = None
  /\ heap = [i \in Ids |-> FreeCell]
  /\ pc = [p \in Procs |-> "idle"]
  /\ force_refresh = [p \in Procs |-> FALSE]
  /\ current_time = [p \in Procs |-> 0]
  /\ df = [p \in Procs |-> None]
  /\ reads = [p \in Procs |-> NoReads]
  /\ kind = [p \in Procs |-> "none"]
  /\ raised = [p \in Procs |-> FALSE]
  /\ retval = [p \in Procs |-> FreeCell]
  /\ entry = [p \in Procs |-> "empty"]
  /\ at_entry = [p \in Procs |-> NoGlobals]
  /\ prev = [p \in Procs |-> NoCall]
  /\ cachedTable = FreeCell
  /\ cacheTag = None
  /\ tsTag = None
  /\ seenTag = [p \in Procs |-> None]
  /\ servedTag = [p \in Procs |-> None]
  /\ nstores = [p \in Procs |-> 0]

\* The page before its first callback.
NoSelection == [start_date |-> "", end_date |-> "", batch_filter |-> {},
                exam_filter |-> {}, plan_filter |-> {}]

NoOutputs == [state |-> "none"]

NoDownload == [callback |-> "none"]

DashInit ==
  /\ global_df = FreeCell
  /\ selection = NoSelection
  /\ filtered_df = FreeCell
  /\ outputs = NoOutputs
  /\ download = NoDownload

Init == LoaderInit /\ DashInit

(***************************************************************************)
(* Objects                                                                 *)
(***************************************************************************)
\* The objects some variable refers to, given the cache and the threads' tables.
Referenced(cache, tables) == ({cache} \cup {tables[p] : p \in Procs}) \ {None}

\* An id for a new object.
FreshId(cache, tables) == MinOf(Ids \ Referenced(cache, tables))

\* Mutant: the table itself is used where the code copies it.
NoCopy(src, fresh) == src

\* DataFrame.copy() (lines 68, 176): the result is a new object `fresh`, never
\* the object `src` that is copied.
CopyOf(src, fresh) == fresh

\* The heap h once the objects nothing refers to are dropped.
Collect(h, cache, tables) ==
  [i \in Ids |-> IF i \in Referenced(cache, tables) THEN h[i] ELSE FreeCell]

\* The identity of the store a thread is making.
StoreTag(p) == 2 * p + nstores[p]

(***************************************************************************)
(* The clock                                                               *)
(***************************************************************************)
Tick ==
  /\ now + TickStep <= MaxTime
  /\ now' = now + TickStep
  /\ UNCHANGED << DATA_CACHE, CACHE_TIMESTAMP, heap, pc, force_refresh, current_time,
                  df, reads, kind, raised, retval, entry, at_entry, prev, cachedTable, cacheTag,
                  tsTag, seenTag, servedTag, nstores >>
  /\ UNCHANGED dashVars

(***************************************************************************)
(* load_data_from_sheets (lines 59-199), one action per step               *)
(***************************************************************************)
\* Line 64: the call begins and reads the clock.
Call(p, f) ==
  /\ pc[p] = "idle"
  /\ current_time' = [current_time EXCEPT ![p] = now]
  /\ force_refresh' = [force_refresh EXCEPT ![p] = f]
  /\ pc' = [pc EXCEPT ![p] = "check_data"]
  /\ entry' = [entry EXCEPT ![p] = CacheState(now)]
  /\ UNCHANGED << now, DATA_CACHE, CACHE_TIMESTAMP, heap, df, reads, kind, raised,
                  retval, prev, cachedTable, cacheTag, tsTag, seenTag, servedTag,
                  nstores >>
  /\ UNCHANGED dashVars

\* The sequential caller calls: what the globals are at that moment is
\* remembered until its callback ends.
CallInTurn(p, f) ==
  /\ Call(p, f)
  /\ at_entry' = [at_entry EXCEPT ![p] = Globals]

\* A concurrent request calls.
CallFromThread(p, f) ==
  /\ Call(p, f)
  /\ UNCHANGED at_entry

\* Mutant: line 65 without its test of force_refresh.
CacheUsableForced(force, cache) == cache # None

\* Line 65: `not force_refresh and DATA_CACHE is not None`.
CacheUsable(force, cache) == ~force /\ cache # None

\* Mutant: a stored entry never expires.
CacheFreshForever(ct, ts) == ts # None

\* Mutant: the comparison of line 66 inverted.
CacheFreshInverted(ct, ts) == ts # None /\ (ct - ts) >= CACHE_DURATION

\* Mutant: an entry aged exactly CACHE_DURATION still counts as fresh.
CacheFreshInclusive(ct, ts) == ts # None /\ (ct - ts) <= CACHE_DURATION

\* Line 66: `CACHE_TIMESTAMP is not None and (current_time - CACHE_TIMESTAMP) < CACHE_DURATION`.
CacheFresh(ct, ts) == ts # None /\ (ct - ts) < CACHE_DURATION

CheckData(p) ==
  /\ pc[p] = "check_data"
  /\ pc' = [pc EXCEPT ![p] = IF CacheUsable(force_refresh[p], DATA_CACHE)
                             THEN "check_ts" ELSE "fetch"]
  /\ UNCHANGED << now, DATA_CACHE, CACHE_TIMESTAMP, heap, force_refresh, current_time,
                  df, reads, kind, raised, retval, entry, at_entry, prev, cachedTable, cacheTag,
                  tsTag, seenTag, servedTag, nstores >>
  /\ UNCHANGED dashVars

CheckTimestamp(p) ==
  /\ pc[p] = "check_ts"
  /\ pc' = [pc EXCEPT ![p] = IF CacheFresh(current_time[p], CACHE_TIMESTAMP)
                             THEN "hit" ELSE "fetch"]
  /\ seenTag' = [seenTag EXCEPT ![p] = tsTag]
  /\ UNCHANGED << now, DATA_CACHE, CACHE_TIMESTAMP, heap, force_refresh, current_time,
                  df, reads, kind, raised, retval, entry, at_entry, prev, cachedTable, cacheTag,
                  tsTag, servedTag, nstores >>
  /\ UNCHANGED dashVars

\* Line 68: return DATA_CACHE.copy().
ReturnCached(p) ==
  /\ pc[p] = "hit"
  /\ LET o == CopyOf(DATA_CACHE, FreshId(DATA_CACHE, df))
     IN  /\ df' = [df EXCEPT ![p] = o]
         /\ heap' = [heap EXCEPT ![o] = heap[DATA_CACHE]]
  /\ retval' = [retval EXCEPT ![p] = heap[DATA_CACHE]]
  /\ kind' = [kind EXCEPT ![p] = "cached"]
  /\ servedTag' = [servedTag EXCEPT ![p] = cacheTag]
  /\ pc' = [pc EXCEPT ![p] = "done"]
  /\ UNCHANGED << now, DATA_CACHE, CACHE_TIMESTAMP, force_refresh, current_time,
                  reads, raised, entry, at_entry, prev, cachedTable, cacheTag, tsTag, seenTag,
                  nstores >>
  /\ UNCHANGED dashVars

\* Mutant: the handler re-raises.
ExceptReraise == [raised |-> TRUE, table |-> EmptyFrame]

\* The except branch of lines 190-199: the exception is reported and the
\* empty table with the fixed schema is returned.
ExceptResult == [raised |-> FALSE, table |-> EmptySchema]

\* The call returns the new table t (or propagates, when r says so).
ReturnNew(p, k, r) ==
  /\ LET o == FreshId(DATA_CACHE, df)
     IN  IF r.raised
         THEN df' = df /\ heap' = heap
         ELSE df' = [df EXCEPT ![p] = o] /\ heap' = [heap EXCEPT ![o] = r.table]
  /\ retval' = [retval EXCEPT ![p] = IF r.raised THEN FreeCell ELSE r.table]
  /\ raised' = [raised EXCEPT ![p] = r.raised]
  /\ kind' = [kind EXCEPT ![p] = k]
  /\ pc' = [pc EXCEPT ![p] = "done"]

\* Line 74: creds = get_google_credentials().
Credentials(p, env, file) ==
  /\ pc[p] = "fetch"
  /\ IF get_google_credentials(env, file)
     THEN /\ pc' = [pc EXCEPT ![p] = "open"]
          /\ UNCHANGED << df, heap, retval, raised, kind >>
     ELSE ReturnNew(p, "error", ExceptResult)
  /\ UNCHANGED << now, DATA_CACHE, CACHE_TIMESTAMP, force_refresh, current_time,
                  reads, entry, at_entry, prev, cachedTable, cacheTag, tsTag, seenTag,
                  servedTag, nstores >>
  /\ UNCHANGED dashVars

\* Lines 75-77: gspread.authorize / client.open_by_key raises.
OpenFail(p) ==
  /\ pc[p] = "open"
  /\ ReturnNew(p, "error", ExceptResult)
  /\ UNCHANGED << now, DATA_CACHE, CACHE_TIMESTAMP, force_refresh, current_time,
                  reads, entry, at_entry, prev, cachedTable, cacheTag, tsTag, seenTag,
                  servedTag, nstores >>
  /\ UNCHANGED dashVars

\* Lines 77-173: the spreadsheet opens, the worksheets are read (r) and the
\* combined table is normalised; the call returns the empty table, or goes on
\* to line 176 with its table df.
LoadSheets(p, r) ==
  /\ pc[p] = "open"
  /\ reads' = [reads EXCEPT ![p] = r]
  /\ LET res == FetchResult(r)
     IN  CASE res.kind = "ok" ->
                LET o == FreshId(DATA_CACHE, df)
                IN  /\ df' = [df EXCEPT ![p] = o]
                    /\ heap' = [heap EXCEPT ![o] = res.df]
                    /\ pc' = [pc EXCEPT ![p] = "store_data"]
                    /\ UNCHANGED << retval, raised, kind >>
           [] res.kind = "error" -> ReturnNew(p, "error", ExceptResult)
           [] OTHER -> ReturnNew(p, res.kind, [raised |-> FALSE, table |-> res.df])
  /\ UNCHANGED << now, DATA_CACHE, CACHE_TIMESTAMP, force_refresh, current_time,
                  entry, at_entry, prev, cachedTable, cacheTag, tsTag, seenTag, servedTag,
                  nstores >>
  /\ UNCHANGED dashVars

\* Line 176: DATA_CACHE = df.copy().
StoreData(p) ==
  /\ pc[p] = "store_data"
  /\ LET o == CopyOf(df[p], FreshId(None, df))
     IN  /\ DATA_CACHE' = o
         /\ heap' = Collect([heap EXCEPT ![o] = heap[df[p]]], o, df)
  /\ cachedTable' = heap[df[p]]
  /\ cacheTag' = StoreTag(p)
  /\ pc' = [pc EXCEPT ![p] = "store_ts"]
  /\ UNCHANGED << now, CACHE_TIMESTAMP, force_refresh, current_time, df, reads, kind,
                  raised, retval, entry, at_entry, prev, tsTag, seenTag, servedTag, nstores >>
  /\ UNCHANGED dashVars

\* Mutant: line 177 is missing, CACHE_TIMESTAMP keeps the value it had.
StoredTimestampKept(p) == CACHE_TIMESTAMP

\* Mutant: the clock is read again when the table is stored.
StoredTimestampNow(p) == now

\* Line 177: the value stored is the local current_time of line 64.
StoredTimestamp(p) == current_time[p]

\* Lines 177-188: CACHE_TIMESTAMP = current_time, then return df.
StoreTimestamp(p) ==
  /\ pc[p] = "store_ts"
  /\ CACHE_TIMESTAMP' = StoredTimestamp(p)
  /\ tsTag' = StoreTag(p)
  /\ nstores' = [nstores EXCEPT ![p] = 1 - nstores[p]]
  /\ retval' = [retval EXCEPT ![p] = heap[df[p]]]
  /\ kind' = [kind EXCEPT ![p] = "ok"]
  /\ pc' = [pc EXCEPT ![p] = "done"]
  /\ UNCHANGED << now, DATA_CACHE, heap, force_refresh, current_time, df, reads,
                  raised, entry, at_entry, prev, cachedTable, cacheTag, seenTag, servedTag >>
  /\ UNCHANGED dashVars

(***************************************************************************)
(* The caller (lines 546, 565, 584, 678)                                   *)
(***************************************************************************)
\* The caller changes the table it was handed, in place.
Mutate(p) ==
  /\ pc[p] = "done"
  /\ df[p] # None
  /\ heap[df[p]].rows # << >>
  /\ heap' = [heap EXCEPT ![df[p]].rows = << >>]
  /\ UNCHANGED << now, DATA_CACHE, CACHE_TIMESTAMP, pc, force_refresh, current_time,
                  df, reads, kind, raised, retval, entry, at_entry, prev, cachedTable, cacheTag,
                  tsTag, seenTag, servedTag, nstores >>
  /\ UNCHANGED dashVars

\* The callback ends: its table and the locals of its call are dropped.
EndCallback(p) ==
  /\ pc[p] = "done"
  /\ pc' = [pc EXCEPT ![p] = "idle"]
  /\ df' = [df EXCEPT ![p] = None]
  /\ heap' = Collect(heap, DATA_CACHE, df')
  /\ current_time' = [current_time EXCEPT ![p] = 0]
  /\ force_refresh' = [force_refresh EXCEPT ![p] = FALSE]
  /\ retval' = [retval EXCEPT ![p] = FreeCell]
  /\ reads' = [reads EXCEPT ![p] = NoReads]
  /\ kind' = [kind EXCEPT ![p] = "none"]
  /\ raised' = [raised EXCEPT ![p] = FALSE]
  /\ entry' = [entry EXCEPT ![p] = "empty"]
  /\ at_entry' = [at_entry EXCEPT ![p] = NoGlobals]
  /\ seenTag' = [seenTag EXCEPT ![p] = None]
  /\ servedTag' = [servedTag EXCEPT ![p] = None]
  /\ UNCHANGED << now, DATA_CACHE, CACHE_TIMESTAMP, cachedTable, cacheTag, tsTag,
                  nstores >>
  /\ UNCHANGED dashVars

\* The callback of the sequential caller ends; the call it made is remembered
\* as its previous call.
Finish(p) ==
  /\ EndCallback(p)
  /\ prev' = [prev EXCEPT ![p] =
                [valid |-> TRUE, t |-> current_time[p], force |-> force_refresh[p],
                 entry |-> entry[p], kind |-> kind[p]]]

\* The callback of a concurrent request ends.
Leave(p) ==
  /\ EndCallback(p)
  /\ UNCHANGED prev

(***************************************************************************)
(* Specifications                                                          *)
(***************************************************************************)
\* Sequential calls: one caller, as in the single-worker deployment.
Next ==
  \/ Tick
  \/ \E f \in BOOLEAN : CallInTurn(1, f)
  \/ CheckData(1)
  \/ CheckTimestamp(1)
  \/ ReturnCached(1)
  \/ \E env \in CredentialSources, file \in CredentialSources : Credentials(1, env, file)
  \/ OpenFail(1)
  \/ \E r \in RemoteReads : LoadSheets(1, r)
  \/ StoreData(1)
  \/ StoreTimestamp(1)
  \/ Mutate(1)
  \/ Finish(1)

Spec == Init /\ [][Next]_vars

\* What the worksheets hold in the runs of concurrent requests.
ConcReads == {r \in RemoteReads : ~r[2].ok /\ (r[1].ok => r[1].data = SheetFoundation)}

\* Concurrent requests: the steps of the threads interleave.
NextConc ==
  \/ Tick
  \/ \E p \in Procs :
       \/ \E f \in BOOLEAN : CallFromThread(p, f)
       \/ CheckData(p)
       \/ CheckTimestamp(p)
       \/ ReturnCached(p)
       \/ Credentials(p, "valid", "absent")
       \/ \E r \in ConcReads : LoadSheets(p, r)
       \/ StoreData(p)
       \/ StoreTimestamp(p)
       \/ Leave(p)

SpecConc == Init /\ [][NextConc]_vars

(***************************************************************************)
(* Vocabulary of the properties                                            *)
(***************************************************************************)
\* The call of thread p has returned.
Returned(p) == pc[p] = "done"

\* The call of thread p went to the remote source (it entered line 70).
Fetched(p) == kind[p] \in {"ok", "nosheets", "norows", "error"}

\* The call of thread p was served from the cache (line 68).
Served(p) == kind[p] = "cached"

\* The empty table with the fixed schema of 17 columns, spelled out.
IsEmptySchemaTable(t) == t.cols = SchemaColumns /\ Len(t.cols) = 17 /\ t.rows = << >>

\* The cache is WARM.
Warm == DATA_CACHE # None

\* The frames of the worksheets that could be read, in worksheet order.
LoadedFrames(r) ==
  LET idx == {k \in 1..Len(r) : r[k].ok /\ Len(r[k].data) > 0}
      RECURSIVE pick(_)
      pick(k) == IF k > Len(r) THEN << >>
                 ELSE IF k \in idx THEN <<SheetFrame(r[k].data)>> \o pick(k + 1)
                 ELSE pick(k + 1)
  IN  pick(1)

\* Two consecutive non-forced calls of the sequential caller, the first from an
\* EMPTY or expired cache, their entries less than 300 seconds apart; the
\* second has returned.
TwoCallsWithinWindow ==
  /\ Returned(1)
  /\ prev[1].valid
  /\ ~prev[1].force
  /\ prev[1].entry \in {"empty", "expired"}
  /\ ~force_refresh[1]
  /\ current_time[1] - prev[1].t < 300

\* The number of remote fetches of the two calls.
FetchCount ==
  (IF prev[1].kind \in {"ok", "nosheets", "norows", "error"} THEN 1 ELSE 0)
    + (IF Fetched(1) THEN 1 ELSE 0)

(***************************************************************************)
(* C1                                                                      *)
(***************************************************************************)
\* C1 as stated: from an EMPTY or expired cache, two consecutive non-forced
\* calls less than 300 s apart make exactly one remote fetch in total,
\* whatever the outcome of that fetch.
C1_OneFetchWhateverOutcome == TwoCallsWithinWindow => FetchCount = 1

\* C1 (amended): from an EMPTY or expired cache, two consecutive non-forced
\* calls whose entries are less than 300 s apart make exactly one remote
\* fetch in total when the first call's fetch succeeds with at least one
\* row; when it fails or yields no row the second call fetches again, two
\* fetches in total.
C1_OneFetchAfterSuccess ==
  TwoCallsWithinWindow => FetchCount = (IF prev[1].kind = "ok" THEN 1 ELSE 2)

\* The second call, 100 s after a successful refresh of an expired cache, has
\* been served from the cache.
C1_Witness ==
  /\ TwoCallsWithinWindow
  /\ prev[1].entry = "expired"
  /\ prev[1].kind = "ok"
  /\ current_time[1] - prev[1].t = 100
  /\ Served(1)

(***************************************************************************)
(* C2                                                                      *)
(***************************************************************************)
\* C2: with a WARM cache, a call that has to fetch and whose fetch or
\* normalisation fails returns a table equal to the previously cached table.
C2_StaleTableOnFailure ==
  (Returned(1) /\ entry[1] # "empty" /\ kind[1] = "error")
    => (~raised[1] /\ retval[1] = cachedTable)

(***************************************************************************)
(* C3                                                                      *)
(***************************************************************************)
\* What C3 says makes a call go to the remote source.
MustFetch(p) == force_refresh[p] \/ entry[p] \in {"empty", "expired"}

\* C3: a call goes to the remote source if and only if force_refresh is true,
\* or the cache is EMPTY, or the cached entry is at least 300 s old; in every
\* other case it returns the cached table without remote access.
C3_FetchIffForcedEmptyOrExpired ==
  /\ pc[1] \in {"fetch", "open", "store_data", "store_ts"} => MustFetch(1)
  /\ pc[1] = "hit" => ~MustFetch(1)
  /\ Returned(1) => (Fetched(1) <=> MustFetch(1))
  /\ (Returned(1) /\ ~MustFetch(1)) => (Served(1) /\ retval[1] = cachedTable)

\* A non-forced call that found the entry exactly 300 s old has fetched.
C3_Witness ==
  /\ Returned(1)
  /\ ~force_refresh[1]
  /\ entry[1] = "expired"
  /\ current_time[1] - CACHE_TIMESTAMP = 300
  /\ Fetched(1)

(***************************************************************************)
(* C4                                                                      *)
(***************************************************************************)
\* The cache holds the table the call returned, stamped with the call's
\* current_time.
CacheHoldsReturned(p) ==
  /\ Warm
  /\ CACHE_TIMESTAMP = current_time[p]
  /\ heap[DATA_CACHE] = retval[p]

\* C4 as stated: after every fetch and normalisation that completes without
\* error, a table of zero rows included, the cache is WARM, holds the table of
\* that fetch with the current time, and the call returns an equal table.
C4_CachedAfterEveryCleanFetch ==
  (Returned(1) /\ kind[1] \in {"ok", "norows"}) => CacheHoldsReturned(1)

\* C4 (amended): after a fetch and normalisation that completes without error
\* and leaves at least one row, the cache is WARM, holds exactly the table of
\* that fetch with the call's current_time as timestamp, and the call returns
\* an equal table; a fetch that leaves zero rows returns the empty table with
\* the fixed schema and leaves the cache as it was.
C4_CachedAfterNonEmptyFetch ==
  /\ (Returned(1) /\ kind[1] = "ok") =>
        /\ CacheHoldsReturned(1)
        /\ retval[1] = Normalize(LoadedFrames(reads[1]))
        /\ retval[1].rows # << >>
  /\ (Returned(1) /\ kind[1] = "norows") =>
        /\ IsEmptySchemaTable(retval[1])
        /\ Warm => (heap[DATA_CACHE] = cachedTable /\ cachedTable.rows # << >>)
        /\ entry[1] = "empty" => ~Warm

\* A forced refresh of a WARM cache has succeeded and replaced the table.
C4_Witness ==
  /\ Returned(1)
  /\ kind[1] = "ok"
  /\ force_refresh[1]
  /\ entry[1] = "fresh"
  /\ prev[1].kind = "ok"
  /\ current_time[1] > prev[1].t

(***************************************************************************)
(* C5                                                                      *)
(***************************************************************************)
\* C5: under concurrent calls, every call served from the cache observes a
\* timestamp (line 66) and a table (line 68) written by one and the same fetch.
C5_TableAndTimestampOfOneFetch ==
  \A p \in Procs : (Returned(p) /\ Served(p)) => seenTag[p] = servedTag[p]

(***************************************************************************)
(* C6                                                                      *)
(***************************************************************************)
\* C6: no returned table shares state with the cached table; whatever the
\* callers do to the tables they hold, the cached table stays as the last
\* successful fetch stored it and a cache-served call returns it so.
C6_ReturnedTablesArePrivate ==
  /\ \A p \in Procs : df[p] # None => df[p] # DATA_CACHE
  /\ Warm => heap[DATA_CACHE] = cachedTable
  /\ \A p \in Procs : (Returned(p) /\ Served(p)) => retval[p] = cachedTable

\* The caller has emptied the table a cache-served call handed to it, and the
\* cached table still has its rows.
C6_Witness ==
  /\ Returned(1)
  /\ Served(1)
  /\ retval[1].rows # << >>
  /\ heap[df[1]].rows = << >>
  /\ heap[DATA_CACHE] = cachedTable
  /\ cachedTable.rows # << >>

(***************************************************************************)
(* C7                                                                      *)
(***************************************************************************)
\* C7: a call never propagates an exception: whichever step fails it returns
\* a table, and with an EMPTY cache that table is the empty table with the
\* fixed schema of 17 columns.
C7_NeverRaises ==
  /\ \A p \in Procs : ~raised[p]
  /\ Returned(1) => retval[1] # FreeCell
  /\ (Returned(1) /\ kind[1] \in {"error", "nosheets"} /\ entry[1] = "empty")
       => IsEmptySchemaTable(retval[1])

\* A call on an EMPTY cache whose fetch raised has returned.
C7_Witness == Returned(1) /\ kind[1] = "error" /\ entry[1] = "empty" /\ ~Warm

(***************************************************************************)
(* C8                                                                      *)
(***************************************************************************)
HasColumn(t, c) == c \in SeqToSet(t.cols)

ContributesAt(f, t, i) ==
  /\ i + Len(f.rows) <= Len(t.rows)
  /\ \A j \in 1..Len(f.rows) : \A c \in SeqToSet(f.cols) : t.rows[i + j][c] = f.rows[j][c]

\* C9: a worksheet whose read fails is only left out: every worksheet that can
\* be read contributes all of its rows to the combined table, wherever the
\* failing worksheet is in the list.
C9_FailedSheetOnlySkipped ==
  reads[1] # NoReads =>
    LET r      == reads[1]
        all    == LoadAllSheets(r)
        good   == {k \in 1..Len(r) : r[k].ok /\ Len(r[k].data) > 0}
        before(k) == {j \in good : j < k}
        RECURSIVE rowsOf(_)
        rowsOf(S) == IF S = {} THEN 0
                     ELSE LET j == MinOf(S)
                          IN  Len(r[j].data) - header_row(r[j].data) + rowsOf(S \ {j})
    IN  /\ Len(all) = Cardinality(good)
        /\ all # << >> =>
             /\ Len(Concat(all).rows) = rowsOf(good)
             /\ \A k \in good :
                  ContributesAt(SheetFrame(r[k].data), Concat(all), rowsOf(before(k)))
        /\ (Returned(1) /\ kind[1] = "ok") => retval[1] = Normalize(LoadedFrames(r))

\* The first worksheet could not be read and the rows of the second are in
\* the table the call returned.
C9_Witness ==
  /\ Returned(1)
  /\ kind[1] = "ok"
  /\ ~reads[1][1].ok
  /\ reads[1][2].ok
  /\ retval[1].rows # << >>

(***************************************************************************)
(* C10                                                                     *)
(***************************************************************************)
\* C10: when no worksheet yields data the call returns the empty table with
\* the fixed schema, in every cache state.
C10_EmptySchemaWhenNoSheet ==
  /\ (Returned(1) /\ reads[1] # NoReads /\ LoadedFrames(reads[1]) = << >>)
       => kind[1] = "nosheets"
  /\ (Returned(1) /\ kind[1] = "nosheets")
       => (~raised[1] /\ IsEmptySchemaTable(retval[1]))

\* Every worksheet read of a forced refresh of a WARM cache has failed.
C10_Witness ==
  /\ Returned(1)
  /\ kind[1] = "nosheets"
  /\ entry[1] = "fresh"
  /\ Warm
  /\ \A k \in 1..Len(WORKSHEET_NAMES) : ~reads[1][k].ok


(***************************************************************************)
(* The page: what update_dashboard may load and be given                   *)
(***************************************************************************)
PageReads ==
  {r \in [1..Len(WORKSHEET_NAMES) ->
            UNION {{[ok |-> TRUE, data |-> w] : w \in PageWorksheets[k]} : k \in 1..Len(WORKSHEET_NAMES)}
              \cup {[ok |-> FALSE, data |-> << >>]}] :
     \A k \in 1..Len(WORKSHEET_NAMES) : r[k].ok => r[k].data \in PageWorksheets[k]}

\* Line 678: the tables load_data_from_sheets may hand to update_dashboard.
PageTables == {FetchResult(r).df : r \in PageReads}

\* The dates the DatePickerRange of lines 243-251 may send ('YYYY-MM-DD').
DateRanges ==
  { <<"2024-01-01", "2024-01-20">>, <<"2024-01-05", "2024-01-14">>,
    <<"2024-01-06", "2024-01-13">>, <<"2024-01-05", "2024-01-06">>,
    <<"2024-01-13", "2024-01-14">>, <<"2024-01-01", "2024-01-01">>,
    <<"2024-01-14", "2024-01-05">> }

\* The values the three checklists may send.
BatchSelections == {{}, {"B1"}, {"B2"}, {"B1", "B2"}}
ExamSelections == {{}, {"JEE"}, {"NEET"}}
PlanSelections == {{}, {"Pro"}, {"Lite"}}

Selections ==
  {[start_date |-> d[1], end_date |-> d[2], batch_filter |-> b, exam_filter |-> e,
    plan_filter |-> pl] :
     d \in DateRanges, b \in BatchSelections, e \in ExamSelections, pl \in PlanSelections}

(***************************************************************************)
(* update_dashboard: the filter (lines 689-707)                            *)
(***************************************************************************)
\* Lines 692-695: `converteddate >= start_date` and `converteddate <= end_date`;
\* pandas reads the two date strings as Timestamps (midnight of the day).
\* Mutant: the end bound is exclusive.
DateInRangeExclusive(v, start_date, end_date) ==
  v >= ParseDate(start_date) /\ v < ParseDate(end_date)

DateInRange(v, start_date, end_date) ==
  v >= ParseDate(start_date) /\ v <= ParseDate(end_date)

DateFilter(t, start_date, end_date) ==
  IF "converteddate" \in SeqToSet(t.cols)
  THEN [t EXCEPT !.rows =
                 SelectSeq(t.rows, LAMBDA r : DateInRange(r["converteddate"], start_date, end_date))]
  ELSE t

\* Mutant: the rows whose value is in the selection are the ones removed.
IsInFilterNegated(t, col, values) ==
  IF values # {} /\ col \in SeqToSet(t.cols)
  THEN [t EXCEPT !.rows = SelectSeq(t.rows, LAMBDA r : r[col] \notin values)]
  ELSE t

\* Mutant: an empty selection is applied like any other, and accepts no row.
IsInFilterEmptyRejects(t, col, values) ==
  IF col \in SeqToSet(t.cols)
  THEN [t EXCEPT !.rows = SelectSeq(t.rows, LAMBDA r : r[col] \in values)]
  ELSE t

\* Lines 698-707: `if values and len(values) > 0 and col in filtered_df.columns:
\* filtered_df = filtered_df[filtered_df[col].isin(values)]`.
IsInFilter(t, col, values) ==
  IF values # {} /\ col \in SeqToSet(t.cols)
  THEN [t EXCEPT !.rows = SelectSeq(t.rows, LAMBDA r : r[col] \in values)]
  ELSE t

\* Lines 690-707.
Filter(t, s) ==
  IsInFilter(IsInFilter(IsInFilter(DateFilter(t, s.start_date, s.end_date),
                                   "name", s.batch_filter),
                        "Exam_2", s.exam_filter),
             "plan", s.plan_filter)

(***************************************************************************)
(* pandas operations of the aggregations                                   *)
(***************************************************************************)
HasCol(t, c) == c \in SeqToSet(t.cols)

\* The day of January and the hour of a Timestamp.
DayOf(ts) == ts \div 24

HourOf(ts) == ts % 24

\* '%d', '%H': two digits.
TwoDigits(n) == IF n < 10 THEN "0" \o ToString(n) ELSE ToString(n)

\* .dt.strftime('%d %b %Y') (lines 774, 818): the time of day is dropped.
DateDisplay(ts) == TwoDigits(DayOf(ts)) \o " Jan 2024"

\* .dt.strftime('%Y-%m-%d') (line 1052).
DateOnly(ts) == "2024-01-" \o TwoDigits(DayOf(ts))

\* x / 10000000 (lines 717, 816, 879, 932, 975): rupees to crores, kept as the
\* fraction <<numerator, denominator>>.
Crores(x) == <<x, 10000000>>

\* pd.Timestamp(end_date) - pd.Timedelta(days=7) (lines 711, 1047).
WindowStart(end_date) == ParseDate(end_date) - 7 * 24

\* s.head(n).
HeadN(s, n) == SubSeq(s, 1, IF Len(s) < n THEN Len(s) ELSE n)

\* Stable sort of <<key, value>> pairs by ascending integer key.
RECURSIVE SortPairs(_)
SortPairs(ps) ==
  IF ps = << >> THEN << >>
  ELSE LET i == CHOOSE i \in 1..Len(ps) :
                  \A j \in 1..Len(ps) : ps[i][1] < ps[j][1] \/ (ps[i][1] = ps[j][1] /\ i <= j)
       IN  <<ps[i]>> \o SortPairs(SubSeq(ps, 1, i - 1) \o SubSeq(ps, i + 1, Len(ps)))

\* sort_values: the elements of s by ascending key, keys[i] being the key of
\* s[i]; elements of equal key stay in the order they had (pandas leaves
\* their order open).
SortedBy(s, keys) ==
  LET sorted == SortPairs([i \in 1..Len(s) |-> <<keys[i], s[i]>>])
  IN  [i \in 1..Len(s) |-> sorted[i][2]]

\* The group keys of groupby(col) / value_counts(): the distinct values of the
\* column, a missing value (NaN, NaT) is no key (dropna=True).
GroupKeys(rows, col) ==
  AppendNew(<< >>, SelectSeq([i \in 1..Len(rows) |-> rows[i][col]], LAMBDA v : ~IsNA(col, v)))

GroupRows(rows, col, v) == SelectSeq(rows, LAMBDA r : r[col] = v)

\* The group keys of t.groupby(col) / t[col].value_counts() with the default
\* observed=False: on a categorical column every category is a key, whether
\* or not a row of t holds it.
CategoryKeys(t, col) == AppendNew(GroupKeys(t.rows, col), Categories(t, col))

\* df[col].sum().
RECURSIVE ColumnSum(_, _)
ColumnSum(rows, col) ==
  IF rows = << >> THEN 0 ELSE Head(rows)[col] + ColumnSum(Tail(rows), col)

\* GroupBy 'first': the first value of the column that is not missing.
First(rows, col) ==
  LET vals == SelectSeq([i \in 1..Len(rows) |-> rows[i][col]], LAMBDA v : ~IsNA(col, v))
  IN  IF vals = << >> THEN NaN ELSE Head(vals)

\* Mutant: the counts are left in the order of first appearance.
CountsUnsorted(t, col) ==
  LET keys == CategoryKeys(t, col)
  IN  [k \in 1..Len(keys) |-> [value |-> keys[k], count |-> Len(GroupRows(t.rows, col, keys[k]))]]

\* df[col].value_counts(): one (value, count) per value, by descending count.
value_counts(t, col) ==
  LET keys == CategoryKeys(t, col)
      counts == [k \in 1..Len(keys) |->
                   [value |-> keys[k], count |-> Len(GroupRows(t.rows, col, keys[k]))]]
  IN  SortedBy(counts, [k \in 1..Len(counts) |-> 0 - counts[k].count])

\* df.groupby('converteddate').size().reset_index(name='count'): one row per
\* distinct Timestamp of the column, by ascending Timestamp.
SizeByDate(rows) ==
  LET keys == GroupKeys(rows, "converteddate")
  IN  SortedBy([k \in 1..Len(keys) |->
                  [converteddate |-> keys[k],
                   count |-> Len(GroupRows(rows, "converteddate", keys[k]))]],
               keys)

\* df.groupby('converteddate')['net_amount'].sum().reset_index().
RevenueByDate(rows) ==
  LET keys == GroupKeys(rows, "converteddate")
  IN  SortedBy([k \in 1..Len(keys) |->
                  [converteddate |-> keys[k],
                   net_amount |-> ColumnSum(GroupRows(rows, "converteddate", keys[k]), "net_amount")]],
               keys)

\* df.groupby('Exam_2')['net_amount'].sum().sort_values(ascending=False).
RevenueByExam(t) ==
  LET keys == CategoryKeys(t, "Exam_2")
      sums == [k \in 1..Len(keys) |->
                 [value |-> keys[k],
                  net_amount |-> ColumnSum(GroupRows(t.rows, "Exam_2", keys[k]), "net_amount")]]
  IN  SortedBy(sums, [k \in 1..Len(sums) |-> 0 - sums[k].net_amount])

(***************************************************************************)
(* update_dashboard: metrics, charts and batch table (lines 709-1010)      *)
(***************************************************************************)
\* What a chart or the table shows when its column is absent (lines 765, 809,
\* 855, 873, 898, 1010).
NoData == [kind |-> "nodata"]

\* Line 711: the rows of the last seven days before end_date.
Last7Days(fdf, end_date) ==
  IF HasCol(fdf, "converteddate")
  THEN [fdf EXCEPT !.rows =
                   SelectSeq(fdf.rows, LAMBDA r : r["converteddate"] >= WindowStart(end_date))]
  ELSE fdf

\* Lines 747-764, chart 1: value_counts().head(15).sort_values(ascending=True).
TopBatches(fdf) ==
  IF HasCol(fdf, "name")
  THEN LET top == HeadN(value_counts(fdf, "name"), 15)
       IN  [kind |-> "bar", bars |-> SortedBy(top, [k \in 1..Len(top) |-> top[k].count])]
  ELSE NoData

\* Lines 770-808, chart 2: one point per group of line 772, labelled by line 774.
Last7Trend(last7) ==
  IF HasCol(last7, "converteddate")
  THEN LET g == SizeByDate(last7.rows)
       IN  [kind |-> "line",
            points |-> [i \in 1..Len(g) |->
                          [converteddate |-> g[i].converteddate, count |-> g[i].count,
                           date_display |-> DateDisplay(g[i].converteddate)]]]
  ELSE NoData

\* Lines 814-854, chart 2.5.
RevenueTrend(last7) ==
  IF HasCol(last7, "converteddate") /\ HasCol(last7, "net_amount")
  THEN LET g == RevenueByDate(last7.rows)
       IN  [kind |-> "line",
            points |-> [i \in 1..Len(g) |->
                          [net_amount_cr |-> Crores(g[i].net_amount),
                           date_display |-> DateDisplay(g[i].converteddate)]]]
  ELSE NoData

\* Lines 860-872, chart 3.
ExamDistribution(fdf) ==
  IF HasCol(fdf, "Exam_2")
  THEN [kind |-> "pie", slices |-> value_counts(fdf, "Exam_2")]
  ELSE NoData

\* Lines 878-897, chart 4.
RevenueByExamChart(fdf) ==
  IF HasCol(fdf, "Exam_2") /\ HasCol(fdf, "net_amount")
  THEN LET g == HeadN(RevenueByExam(fdf), 10)
       IN  [kind |-> "bar",
            bars |-> [i \in 1..Len(g) |->
                        [value |-> g[i].value, revenue_cr |-> Crores(g[i].net_amount)]]]
  ELSE NoData

\* Lines 905-918: the columns agg_dict names. 'Exam_2' is in it whatever the
\* columns of the table are.
AggColumns(fdf) ==
  {"Exam_2"} \cup ({"net_amount", "order_type", "leader_fin"} \cap SeqToSet(fdf.cols))

\* Line 915: the lambda of the order types.
OrderTypes(rows) ==
  [primary |-> Len(SelectSeq(rows, LAMBDA r : r["order_type"] = "PRIMARY")),
   upgrade |-> Len(SelectSeq(rows, LAMBDA r : r["order_type"] = "UPGRADE"))]

\* The aggregate of one batch for the source column c (lines 921-925, 932).
BatchCell(g, b, c) ==
  CASE c = "name" -> b
    [] c = "Total Enrollments" -> Len(g)
    [] c = "net_amount" -> Crores(ColumnSum(g, "net_amount"))
    [] c = "order_type" -> OrderTypes(g)
    [] OTHER -> First(g, c)

\* Lines 921-967: one row per batch name (a row without name is in no group),
\* by descending enrollment count.
BatchRows(fdf, aggcols) ==
  LET keys == CategoryKeys(fdf, "name")
      cols == {"name", "Total Enrollments"} \cup aggcols
      groups == [k \in 1..Len(keys) |->
                   [c \in cols |-> BatchCell(GroupRows(fdf.rows, "name", keys[k]), keys[k], c)]]
  IN  SortedBy(groups, [k \in 1..Len(groups) |-> 0 - groups[k]["Total Enrollments"]])

\* sum of the column 'Total Enrollments' (lines 974, 1190).
RECURSIVE TotalEnrollments(_)
TotalEnrollments(rows) ==
  IF rows = << >> THEN 0
  ELSE Head(rows)["Total Enrollments"] + TotalEnrollments(Tail(rows))

\* Lines 903-1010: the batch table, its footer row and its caption.
BatchTable(fdf) ==
  IF HasCol(fdf, "name")
  THEN LET rows == BatchRows(fdf, AggColumns(fdf))
       IN  [kind |-> "table",
            rows |-> rows,
            footer |-> [total_enrollments |-> TotalEnrollments(rows),
                        total_revenue_sum |->
                          IF HasCol(fdf, "net_amount")
                          THEN Crores(ColumnSum(fdf.rows, "net_amount")) ELSE Crores(0)],
            caption |-> [batches |-> Len(rows), enrollments |-> Len(fdf.rows)]]
  ELSE NoData

\* Line 686: sorted(df['Exam_2'].unique()) compares a str with the float NaN
\* when some cells of the column are missing and some are not: TypeError.
DebugRaises(t) ==
  /\ HasCol(t, "Exam_2")
  /\ \E i \in 1..Len(t.rows) : t.rows[i]["Exam_2"] = NaN
  /\ \E i \in 1..Len(t.rows) : t.rows[i]["Exam_2"] # NaN

\* The dtype of the converteddate column: a table with rows went through
\* pd.to_datetime (line 133); the loader gives a table without rows only as
\* pd.DataFrame(columns=[...]) (lines 119, 167, 193), whose columns are object.
DatesAreDatetime(t) == Len(t.rows) > 0

\* Lines 774, 818: the .dt accessor of an object column raises AttributeError.
TrendRaises(t) == HasCol(t, "converteddate") /\ ~DatesAreDatetime(t)

\* Line 921: agg raises KeyError for a column of agg_dict the table lacks.
AggRaises(fdf) == HasCol(fdf, "name") /\ ~(AggColumns(fdf) \subseteq SeqToSet(fdf.cols))

Raised(error, line) == [state |-> "raised", error |-> error, line |-> line]

\* Lines 675-1012: what update_dashboard gives the page for the table t of
\* line 678 and the inputs s.
update_dashboard(t, s) ==
  LET fdf == Filter(t, s)
      last7 == Last7Days(fdf, s.end_date)
  IN  IF DebugRaises(t) THEN Raised("TypeError", 686)
      ELSE IF TrendRaises(t) THEN Raised("AttributeError", 774)
      ELSE IF AggRaises(fdf) THEN Raised("KeyError", 921)
      ELSE [state |-> "shown",
            total_enrollment |-> Len(fdf.rows),
            last_7_days_count |-> Len(last7.rows),
            total_revenue_cr |->
              IF HasCol(fdf, "net_amount") THEN Crores(ColumnSum(fdf.rows, "net_amount"))
              ELSE Crores(0),
            fig1 |-> TopBatches(fdf),
            fig2 |-> Last7Trend(last7),
            fig2_5 |-> RevenueTrend(last7),
            fig3 |-> ExamDistribution(fdf),
            fig4 |-> RevenueByExamChart(fdf),
            data_table |-> BatchTable(fdf)]

(***************************************************************************)
(* The filtered-data store: to_json (line 1012) and read_json              *)
(***************************************************************************)
\* date_format='iso': a Timestamp as text.
IsoFormat(ts) ==
  "2024-01-" \o TwoDigits(DayOf(ts)) \o "T" \o TwoDigits(HourOf(ts)) \o ":00:00.000"

\* A missing cell in JSON.
JsonNull == "null"

\* filtered_df.to_json(date_format='iso', orient='split') (line 1012).
to_json(t) ==
  [cols |-> t.cols,
   rows |-> [i \in 1..Len(t.rows) |->
               [c \in SeqToSet(t.cols) |->
                  IF c \in DateCols
                  THEN IF t.rows[i][c] = NaT THEN JsonNull ELSE IsoFormat(t.rows[i][c])
                  ELSE IF c \notin numeric_cols /\ t.rows[i][c] = NaN THEN JsonNull
                  ELSE t.rows[i][c]]]]

\* The number a two-digit text denotes.
TwoDigitNumber(text) == CHOOSE n \in 0..99 : TwoDigits(n) = text

\* pd.to_datetime of an ISO text (lines 1045, 1072).
ParseIso(text) ==
  IF Len(text) = Len(IsoFormat(0)) /\ SubSeq(text, 1, 8) = "2024-01-"
  THEN Timestamp(TwoDigitNumber(SubSeq(text, 9, 10)), TwoDigitNumber(SubSeq(text, 12, 13)))
  ELSE NaT

\* The text is a run of decimal digits.
Digits == <<"0", "1", "2", "3", "4", "5", "6", "7", "8", "9">>

IsDigits(text) ==
  Len(text) > 0 /\ \A i \in 1..Len(text) : SubSeq(text, i, i) \in SeqToSet(Digits)

\* The number a run of digits denotes.
RECURSIVE NumberOfDigits(_)
NumberOfDigits(text) ==
  IF text = "" THEN 0
  ELSE 10 * NumberOfDigits(SubSeq(text, 1, Len(text) - 1))
         + (IndexOf(Digits, SubSeq(text, Len(text), Len(text))) - 1)

\* read_json infers the dtypes (dtype=True is its default): a column of
\* strings in which every cell that is not null denotes a number is
\* converted to numbers, so '007' and '7' become the same value. Only runs
\* of digits are modelled as such texts.
InferredNumeric(j) ==
  {c \in SeqToSet(j.cols) \ (DateCols \cup numeric_cols) :
     /\ \E i \in 1..Len(j.rows) : j.rows[i][c] # JsonNull
     /\ \A i \in 1..Len(j.rows) : j.rows[i][c] = JsonNull \/ IsDigits(j.rows[i][c])}

\* pd.read_json(filtered_data_json, orient='split') followed, for the date
\* column, by pd.to_datetime (lines 1041-1045); null is read as a missing
\* cell. A number inferred from a text cell is written as the text of its
\* value.
read_json(j) ==
  LET inferred == InferredNumeric(j)
  IN  [cols |-> j.cols,
       rows |-> [i \in 1..Len(j.rows) |->
                   [c \in SeqToSet(j.cols) |->
                      IF c \in DateCols THEN ParseIso(j.rows[i][c])
                      ELSE IF c \notin numeric_cols /\ j.rows[i][c] = JsonNull THEN NaN
                      ELSE IF c \in inferred THEN ToString(NumberOfDigits(j.rows[i][c]))
                      ELSE j.rows[i][c]]]]

(***************************************************************************)
(* The export callbacks (lines 1039-1057, 1128-1208)                       *)
(***************************************************************************)
NotSent(callback) == [callback |-> callback, state |-> "none"]

\* Lines 1040-1057.
export_last7(filtered_data_json, end_date) ==
  LET fdf == read_json(filtered_data_json)
      last7 == Last7Days(fdf, end_date)
      g == SizeByDate(last7.rows)
  IN  IF HasCol(last7, "converteddate") /\ Len(last7.rows) > 0
      THEN [callback |-> "export_last7", state |-> "sent",
            rows |-> [i \in 1..Len(g) |->
                        [Date |-> DateOnly(g[i].converteddate),
                         total_enrollments |-> g[i].count]]]
      ELSE NotSent("export_last7")

\* Lines 1134-1143: the columns of agg_dict, each only when the table has it.
ExportAggColumns(fdf) == {"Exam_2", "net_amount", "leader_fin"} \cap SeqToSet(fdf.cols)

\* Sum of the revenue column of the exported rows (line 1192).
RECURSIVE RevenueTotal(_)
RevenueTotal(rows) ==
  IF rows = << >> THEN 0 ELSE Head(rows)["net_amount"][1] + RevenueTotal(Tail(rows))

\* Lines 1129-1208. The two order columns of lines 1153-1159 are the pair
\* of counts of OrderTypes.
export_table(filtered_data_json) ==
  LET fdf == read_json(filtered_data_json)
      aggcols == ExportAggColumns(fdf)
      rows == BatchRows(fdf, aggcols \cup ({"order_type"} \cap SeqToSet(fdf.cols)))
      total_row == [c \in {"name", "Total Enrollments"} \cup (aggcols \cap {"net_amount"}) |->
                      CASE c = "name" -> "TOTAL"
                        [] c = "Total Enrollments" -> TotalEnrollments(rows)
                        [] OTHER -> Crores(RevenueTotal(rows))]
  IN  IF ~HasCol(fdf, "name")
      THEN [callback |-> "export_table", state |-> "sent", sheet |-> "Data", rows |-> fdf.rows]
      ELSE IF aggcols = {}
      THEN [callback |-> "export_table", state |-> "raised"]
      ELSE [callback |-> "export_table", state |-> "sent", sheet |-> "Batch Summary",
            rows |-> Append(rows, total_row)]

(***************************************************************************)
(* The page, one action per callback                                       *)
(***************************************************************************)
\* update_dashboard fires when the page is loaded: it loads the table t
\* (line 678) and is given the inputs s. filtered_df is the local of lines
\* 690-707, which the page stores when the callback returns (line 1012).
UpdateDashboard(t, s) ==
  /\ outputs = NoOutputs
  /\ global_df' = t
  /\ selection' = s
  /\ filtered_df' = IF DebugRaises(t) THEN FreeCell ELSE Filter(t, s)
  /\ outputs' = update_dashboard(t, s)
  /\ download' = NoDownload
  /\ UNCHANGED loaderVars

\* export_last7 fires on its button, with the stored table and end_date.
ExportLast7 ==
  /\ outputs.state = "shown"
  /\ download' = export_last7(to_json(filtered_df), selection.end_date)
  /\ UNCHANGED << loaderVars, global_df, selection, filtered_df, outputs >>

\* export_table fires on its button, with the stored table.
ExportTable ==
  /\ outputs.state = "shown"
  /\ download' = export_table(to_json(filtered_df))
  /\ UNCHANGED << loaderVars, global_df, selection, filtered_df, outputs >>

\* The page is closed.
ClosePage ==
  /\ outputs # NoOutputs
  /\ global_df' = FreeCell
  /\ selection' = NoSelection
  /\ filtered_df' = FreeCell
  /\ outputs' = NoOutputs
  /\ download' = NoDownload
  /\ UNCHANGED loaderVars

NextDash ==
  \/ \E t \in PageTables, s \in Selections : UpdateDashboard(t, s)
  \/ ExportLast7
  \/ ExportTable
  \/ ClosePage

\* One page: the table the loader hands over and the inputs are any of the
\* tables and selections above.
SpecDash == Init /\ [][NextDash]_vars

(***************************************************************************)
(* Vocabulary of the properties of the page                                *)
(***************************************************************************)
\* The last update_dashboard ran its filter (it did not raise before line 690).
HasFiltered == outputs.state = "shown" \/ (outputs.state = "raised" /\ outputs.line > 707)

\* The last update_dashboard returned its outputs.
Shown == outputs.state = "shown"

\* The selection s restricts no dimension of the table t: no batch, exam or
\* plan is selected and every row's Timestamp is within the date range.
NoRestriction(t, s) ==
  /\ s.batch_filter = {} /\ s.exam_filter = {} /\ s.plan_filter = {}
  /\ HasCol(t, "converteddate") =>
       \A i \in 1..Len(t.rows) :
          /\ ParseDate(s.start_date) <= t.rows[i]["converteddate"]
          /\ t.rows[i]["converteddate"] <= ParseDate(s.end_date)

(***************************************************************************)
(* C11: the filter of update_dashboard with no batch, exam or plan         *)
(* selected and a date range that holds every row returns exactly the rows *)
(* of the table it was given.                                              *)
(***************************************************************************)
C11_IdentityFilter ==
  (HasFiltered /\ NoRestriction(global_df, selection)) => filtered_df = global_df

\* The filter ran with an unrestricting selection on a table of several
\* batches and exam categories.
C11_Witness ==
  /\ HasFiltered
  /\ NoRestriction(global_df, selection)
  /\ HasCol(global_df, "name") /\ HasCol(global_df, "Exam_2") /\ HasCol(global_df, "plan")
  /\ \E i, j \in 1..Len(global_df.rows) :
        /\ global_df.rows[i]["name"] # global_df.rows[j]["name"]
        /\ global_df.rows[i]["Exam_2"] # global_df.rows[j]["Exam_2"]

(***************************************************************************)
(* C12: filters compose                                                    *)
(***************************************************************************)
\* The accepted set of two selections of one dimension: an empty selection
\* accepts every value, so the other one stands; else the intersection.
CombineSets(a, b) == IF a = {} THEN b ELSE IF b = {} THEN a ELSE a \cap b

\* The combined selection: per dimension the intersection of the accepted
\* sets, and the intersection of the two date ranges.
Combine(s1, s2) ==
  [start_date |-> IF ParseDate(s1.start_date) >= ParseDate(s2.start_date)
                  THEN s1.start_date ELSE s2.start_date,
   end_date |-> IF ParseDate(s1.end_date) <= ParseDate(s2.end_date)
                THEN s1.end_date ELSE s2.end_date,
   batch_filter |-> CombineSets(s1.batch_filter, s2.batch_filter),
   exam_filter |-> CombineSets(s1.exam_filter, s2.exam_filter),
   plan_filter |-> CombineSets(s1.plan_filter, s2.plan_filter)]

\* Two selections of one dimension that accept no common value.
Disjoint(a, b) == a # {} /\ b # {} /\ a \cap b = {}

SetsMeet(s1, s2) ==
  /\ ~Disjoint(s1.batch_filter, s2.batch_filter)
  /\ ~Disjoint(s1.exam_filter, s2.exam_filter)
  /\ ~Disjoint(s1.plan_filter, s2.plan_filter)

\* C12, as stated: filtering the filtered table again by any selection s2
\* gives the rows of filtering the loaded table once by the combined
\* selection, also when two non-empty accepted sets have no common value.
C12_FiltersCompose ==
  HasFiltered =>
    \A s2 \in Selections :
       Filter(filtered_df, s2) = Filter(global_df, Combine(selection, s2))

\* C12, amended: filtering the filtered table again by a selection s2 gives
\* the rows of filtering the loaded table once by the combined selection,
\* provided that in no dimension the two selections are both non-empty and
\* without a common value (the combined set would then be empty, which the
\* filter reads as no restriction).
C12_FiltersComposeWhenSetsMeet ==
  HasFiltered =>
    \A s2 \in Selections :
       SetsMeet(selection, s2) =>
         Filter(filtered_df, s2) = Filter(global_df, Combine(selection, s2))

\* Two batches were selected and a second selection of one of them removes
\* some of the rows that were left, not all.
C12_Witness ==
  /\ HasFiltered
  /\ selection.batch_filter = {"B1", "B2"}
  /\ \E s2 \in Selections :
        /\ s2.batch_filter = {"B1"}
        /\ SetsMeet(selection, s2)
        /\ Filter(filtered_df, s2).rows # << >>
        /\ Filter(filtered_df, s2).rows # filtered_df.rows

(***************************************************************************)
(* C13: which rows survive the filter                                      *)
(***************************************************************************)
\* The column of each dimension of a selection.
DimensionColumn == [batch_filter |-> "name", exam_filter |-> "Exam_2", plan_filter |-> "plan"]

Dimensions == {"batch_filter", "exam_filter", "plan_filter"}

\* The row r of table t has a value in the column of dimension d, and it is
\* one of the selected values.
IsMember(t, s, r, d) == HasCol(t, DimensionColumn[d]) /\ r[DimensionColumn[d]] \in s[d]

\* The row r of table t has a converted date, between the two bounds.
InsideRange(t, s, r) ==
  /\ HasCol(t, "converteddate")
  /\ ParseDate(s.start_date) <= r["converteddate"]
  /\ r["converteddate"] <= ParseDate(s.end_date)

\* C13, as stated: a row survives the filter iff it is a member of the
\* selection of every dimension whose selection is non-empty and its
\* converted date lies inside the date range.
C13_SurvivesIffMemberAndInRange ==
  HasFiltered =>
    filtered_df.rows =
      SelectSeq(global_df.rows,
                LAMBDA r : /\ \A d \in Dimensions : selection[d] # {} => IsMember(global_df, selection, r, d)
                           /\ InsideRange(global_df, selection, r))

\* C13, amended: a row survives the filter iff it is a member of the
\* selection of every dimension whose selection is non-empty and whose column
\* the table has, and, when the table has a converted date column, its date
\* is between the two bounds; a dimension with an empty selection or without
\* its column never removes a row.
C13_SurvivesIffMemberOfPresentColumns ==
  HasFiltered =>
    filtered_df.rows =
      SelectSeq(global_df.rows,
                LAMBDA r : /\ \A d \in Dimensions :
                                (selection[d] # {} /\ HasCol(global_df, DimensionColumn[d]))
                                   => IsMember(global_df, selection, r, d)
                           /\ HasCol(global_df, "converteddate") => InsideRange(global_df, selection, r))

\* The filter ran with a batch and an exam category selected and no plan:
\* one row went for its batch, one for its date, one stayed.
C13_Witness ==
  /\ HasFiltered
  /\ selection.batch_filter # {} /\ selection.exam_filter # {} /\ selection.plan_filter = {}
  /\ HasCol(global_df, "name") /\ HasCol(global_df, "plan")
  /\ filtered_df.rows # << >>
  /\ \E i \in 1..Len(global_df.rows) :
        /\ global_df.rows[i]["name"] \notin selection.batch_filter
        /\ InsideRange(global_df, selection, global_df.rows[i])
  /\ \E i \in 1..Len(global_df.rows) :
        /\ global_df.rows[i]["name"] \in selection.batch_filter
        /\ ~InsideRange(global_df, selection, global_df.rows[i])

(***************************************************************************)
(* C14: the date range is inclusive on both bounds: every row whose        *)
(* converted date falls on the start date or on the end date, at any time  *)
(* of that day, survives the date filter.                                  *)
(***************************************************************************)
C14_BoundDaysSurvive ==
  ( /\ HasFiltered
    /\ HasCol(global_df, "converteddate")
    /\ selection.batch_filter = {} /\ selection.exam_filter = {} /\ selection.plan_filter = {}
    /\ ParseDate(selection.start_date) <= ParseDate(selection.end_date) )
  => \A i \in 1..Len(global_df.rows) :
        DayOf(global_df.rows[i]["converteddate"])
            \in {DayOf(ParseDate(selection.start_date)), DayOf(ParseDate(selection.end_date))}
          => global_df.rows[i] \in SeqToSet(filtered_df.rows)

(***************************************************************************)
(* C15: for a non-empty filtered table, the enrollment count of the totals *)
(* row, in the footer of the batch table and in the TOTAL row of the       *)
(* exported summary, is the number of rows of the filtered table, also     *)
(* when rows lack a batch name.                                            *)
(***************************************************************************)
\* The batch table is on the page.
TableShown == Shown /\ outputs.data_table.kind = "table"

\* The batch summary was exported.
SummarySent ==
  download.callback = "export_table" /\ download.state = "sent" /\ download.sheet = "Batch Summary"

C15_TotalsRowCountsEveryRow ==
  /\ (TableShown /\ filtered_df.rows # << >>)
       => outputs.data_table.footer.total_enrollments = Len(filtered_df.rows)
  /\ (SummarySent /\ filtered_df.rows # << >>)
       => download.rows[Len(download.rows)]["Total Enrollments"] = Len(filtered_df.rows)

(***************************************************************************)
(* C16: update_dashboard tolerates a table that lacks any one of the       *)
(* optional columns: it completes without raising and its batch table      *)
(* omits the field.                                                        *)
(***************************************************************************)
\* The table t has every column of the page but the optional column c.
LacksOnly(t, c) == SeqToSet(t.cols) = SeqToSet(SheetSales[1]) \ {c}

C16_ToleratesMissingOptionalColumn ==
  \A c \in OptionalColumns :
     (outputs # NoOutputs /\ LacksOnly(global_df, c)) =>
        /\ Shown
        /\ outputs.data_table.kind = "table"
        /\ \A i \in 1..Len(outputs.data_table.rows) : c \notin DOMAIN outputs.data_table.rows[i]

(***************************************************************************)
(* C17: when no row survives the filter (the date range excludes every     *)
(* row, or the loader returned the empty table of the fixed schema),       *)
(* update_dashboard completes without raising and every chart and the      *)
(* table are empty or show no data.                                        *)
(***************************************************************************)
\* A chart or table without content.
IsEmpty(f) ==
  CASE f.kind = "nodata" -> TRUE
    [] f.kind = "bar" -> f.bars = << >>
    [] f.kind = "line" -> f.points = << >>
    [] f.kind = "pie" -> f.slices = << >>
    [] f.kind = "table" -> f.rows = << >>

\* update_dashboard ran on a table of which no row passes the filter. The
\* table lacking the exam column is left to C16.
NoRowSurvives ==
  /\ outputs # NoOutputs
  /\ Filter(global_df, selection).rows = << >>
  /\ HasCol(global_df, "name") => HasCol(global_df, "Exam_2")

C17_EmptyInputGivesEmptyOutputs ==
  NoRowSurvives =>
    /\ Shown
    /\ outputs.total_enrollment = 0
    /\ \A f \in {"fig1", "fig2", "fig2_5", "fig3", "fig4", "data_table"} : IsEmpty(outputs[f])

(***************************************************************************)
(* C18: the recent-window trend has exactly one (date, count) pair for     *)
(* each calendar date on which a filtered row falls within the seven days  *)
(* before the end date, its count is the number of rows of that calendar   *)
(* date, and the pairs are in ascending order of date; the same for the    *)
(* exported trend.                                                         *)
(***************************************************************************)
\* The filtered rows within the seven days before the end date.
WindowRows ==
  SelectSeq(filtered_df.rows,
            LAMBDA r : r["converteddate"] >= ParseDate(selection.end_date) - 7 * 24)

\* The calendar days (of January) on which they fall.
WindowDays == {DayOf(WindowRows[i]["converteddate"]) : i \in 1..Len(WindowRows)}

RowsOnDay(day) == Len(SelectSeq(WindowRows, LAMBDA r : DayOf(r["converteddate"]) = day))

C18_OnePairPerCalendarDate ==
  /\ (Shown /\ outputs.fig2.kind = "line") =>
       LET points == outputs.fig2.points
       IN  /\ Len(points) = Cardinality(WindowDays)
           /\ \A i \in 1..Len(points) :
                 points[i].count = RowsOnDay(DayOf(points[i].converteddate))
           /\ \A i, j \in 1..Len(points) :
                 i < j => DayOf(points[i].converteddate) < DayOf(points[j].converteddate)
  /\ (download.callback = "export_last7" /\ download.state = "sent") =>
       /\ Len(download.rows) = Cardinality(WindowDays)
       /\ \A i, j \in 1..Len(download.rows) : i # j => download.rows[i].Date # download.rows[j].Date

(***************************************************************************)
(* C19: the top-batches chart holds at most 15 batch names, each with its  *)
(* exact number of filtered rows, in ascending order of count; no batch    *)
(* that is left out has more rows than one that is in, and none is left    *)
(* out while there is room.                                                *)
(***************************************************************************)
\* The number of filtered rows of batch b.
RowCount(b) == Len(SelectSeq(filtered_df.rows, LAMBDA r : r["name"] = b))

\* The batch names of the filtered rows.
FilteredBatches ==
  {filtered_df.rows[i]["name"] : i \in 1..Len(filtered_df.rows)} \ {NaN}

C19_TopFifteenBatches ==
  (Shown /\ outputs.fig1.kind = "bar") =>
    LET bars == outputs.fig1.bars
        inside == {bars[i].value : i \in 1..Len(bars)}
    IN  /\ Len(bars) <= 15
        /\ Cardinality(inside) = Len(bars)
        /\ \A i \in 1..Len(bars) : bars[i].count = RowCount(bars[i].value)
        /\ \A i, j \in 1..Len(bars) : i < j => bars[i].count <= bars[j].count
        /\ \A b \in FilteredBatches \ inside :
              /\ Len(bars) = 15
              /\ \A i \in 1..Len(bars) : RowCount(b) <= bars[i].count

\* The chart is full, a batch is left out and the counts differ.
C19_Witness ==
  /\ Shown
  /\ outputs.fig1.kind = "bar"
  /\ Len(outputs.fig1.bars) = 15
  /\ FilteredBatches \ {outputs.fig1.bars[i].value : i \in 1..15} # {}
  /\ outputs.fig1.bars[1].count < outputs.fig1.bars[15].count

(***************************************************************************)
(* C20: every monetary field (net_amount, coupondiscount, donationamount,  *)
(* ADD_ON_STORE) of every row of the normalized table is non-negative,     *)
(* whatever the cells of the worksheets hold.                              *)
(***************************************************************************)
C20_MonetaryFieldsNonNegative ==
  \A p \in Procs :
     Returned(p) =>
       \A i \in 1..Len(retval[p].rows) :
          \A c \in numeric_cols \cap SeqToSet(retval[p].cols) : retval[p].rows[i][c] >= 0

(***************************************************************************)
(* C21: header row detection (lines 85-98)                                 *)
(***************************************************************************)
\* The cell contains a keyword as a case-insensitive substring.
CellHasKeyword(cell) == \E col \in Keywords : Contains(Lower(cell), col)

\* The first row with a cell that contains a keyword; the first row when
\* there is none.
FirstKeywordRow(data) ==
  LET hits == {i \in 1..Len(data) : \E j \in 1..Len(data[i]) : CellHasKeyword(data[i][j])}
  IN  IF hits = {} THEN 1 ELSE MinOf(hits)

FirstKeywordRows == [data \in WorksheetData |-> FirstKeywordRow(data)]

\* The worksheets that a call which went to the spreadsheet has read.
SheetsRead(p) ==
  IF Fetched(p)
  THEN {reads[p][k].data : k \in {j \in DOMAIN reads[p] : SheetLoaded(reads[p][j])}}
  ELSE {}

\* C21: for every worksheet that a fetch reads, the header is the first row
\* in which some cell contains one of the keywords batchid, _id, name,
\* converteddate as a case-insensitive substring, or the first row when no
\* row has such a cell; the cells of that row, stripped, name the columns,
\* the rows above it are discarded and every row below it is a data row.
C21_HeaderIsFirstRowWithKeywordCell ==
  \A p \in Procs : \A data \in SheetsRead(p) :
    LET h == FirstKeywordRows[data]
    IN  /\ header_row(data) = h
        /\ SubSeq(SheetFrame(data).cols, 1, Len(data[h])) =
             [j \in 1..Len(data[h]) |-> Strip(data[h][j])]
        /\ Len(SheetFrame(data).rows) = Len(data) - h

\* The claim's statement held to the worksheets whose cells have no line
\* break: there the text of the row holds a keyword exactly when a cell does.
C21_CellsWithoutLineBreak ==
  \A p \in Procs : \A data \in SheetsRead(p) \ {SheetRegion} :
    LET h == FirstKeywordRows[data]
    IN  /\ header_row(data) = h
        /\ SubSeq(SheetFrame(data).cols, 1, Len(data[h])) =
             [j \in 1..Len(data[h]) |-> Strip(data[h][j])]
        /\ Len(SheetFrame(data).rows) = Len(data) - h


(***************************************************************************)
(* C22: rows that are entirely empty (lines 96-98, 138-163)                *)
(***************************************************************************)
\* The cell of column c is empty in a normalized table: the empty string of
\* a blank worksheet cell, the 0 that line 142 makes of it in a monetary
\* column, or a missing value.
IsEmptyCell(c, v) ==
  IF c \in DateCols THEN v = NaT
  ELSE IF c \in numeric_cols THEN v = 0
  ELSE v \in {"", NaN}

\* The row r of table t is empty across all the columns of t.
IsEmptyRow(t, r) == \A c \in SeqToSet(t.cols) : IsEmptyCell(c, r[c])

HasEmptyRow(t) == \E i \in 1..Len(t.rows) : IsEmptyRow(t, t.rows[i])

\* C22: the cached table never has a row that is empty across all columns,
\* whether or not the worksheets have a converteddate column.
C22_NoEmptyRowInCache ==
  Warm => ~HasEmptyRow(heap[DATA_CACHE])

\* The same for the tables with a converteddate column only: there the blank
\* row has no date and line 161 removes it.
C22_NoEmptyRowWhenDated ==
  (Warm /\ "converteddate" \in SeqToSet(heap[DATA_CACHE].cols)) => ~HasEmptyRow(heap[DATA_CACHE])

(***************************************************************************)
(* C23: what a call leaves of the cache (lines 63-68, 117-125, 165-199)    *)
(***************************************************************************)
\* The call of thread p has ended in a successful fetch with at least one
\* usable row: it went to the spreadsheet, raised nothing and returned rows.
EndedInUsableFetch(p) ==
  /\ Returned(p)
  /\ Fetched(p)
  /\ kind[p] \notin {"error", "nosheets", "norows"}
  /\ retval[p].rows # << >>

\* C23: when a call has ended otherwise (served from the cache, exception,
\* zero worksheets loaded, zero rows after cleaning), DATA_CACHE, the table
\* it refers to and CACHE_TIMESTAMP are exactly as they were when the call
\* began.
C23_CacheUntouchedUnlessUsableFetch ==
  (Returned(1) /\ ~EndedInUsableFetch(1)) => Globals = at_entry[1]

\* A call on a WARM cache has fetched zero rows and has returned.
C23_Witness ==
  /\ Returned(1)
  /\ kind[1] = "norows"
  /\ at_entry[1].cache # None
  /\ Globals = at_entry[1]

(***************************************************************************)
(* C24: force_refresh=True (lines 63-77)                                   *)
(***************************************************************************)
\* The call of thread p is at, or has passed through, the shortcut of lines
\* 66-68.
AtShortcut(p) == pc[p] \in {"check_ts", "hit"} \/ Served(p)

\* The call of thread p is in, or has been through, the try block of line 73.
AttemptsFetch(p) == pc[p] \in {"fetch", "open", "store_data", "store_ts"} \/ Fetched(p)

\* C24: a call with force_refresh=True never reaches the test of the cache
\* age nor the return of line 68, and once past line 65 it is in the fetch
\* (or has been through it when it has returned), whatever the cache held
\* and however old the entry was when the call began.
C24_ForcedCallAlwaysFetches ==
  \A p \in Procs :
    (force_refresh[p] /\ pc[p] # "idle") =>
      /\ ~AtShortcut(p)
      /\ pc[p] # "check_data" => AttemptsFetch(p)
      /\ Returned(p) => (Fetched(p) /\ kind[p] # "cached")

\* A forced call on a WARM cache whose entry was younger than 300 s has been
\* through the fetch.
C24_Witness ==
  /\ Returned(1)
  /\ force_refresh[1]
  /\ entry[1] = "fresh"
  /\ at_entry[1].cache # None
  /\ Fetched(1)

(***************************************************************************)
(* C25: stores of concurrent calls (lines 61-71, 175-177)                  *)
(***************************************************************************)
\* The table in DATA_CACHE was stored by the call that thread q is making or
\* has just made (line 176); the parity of nstores changes at line 177.
WroteTable(q) ==
  \/ pc[q] = "store_ts" /\ cacheTag = StoreTag(q)
  \/ pc[q] = "done" /\ kind[q] = "ok" /\ cacheTag = 2 * q + (1 - nstores[q])

\* No step lowers CACHE_TIMESTAMP.
TimestampNeverDecreases ==
  CACHE_TIMESTAMP # None => (CACHE_TIMESTAMP' # None /\ CACHE_TIMESTAMP' >= CACHE_TIMESTAMP)

\* No execution of line 176 replaces the table of a call that began later.
LaterTableNeverOverwritten ==
  \A p \in Procs : \A q \in Procs \ {p} :
    (pc[p] = "store_data" /\ pc'[p] = "store_ts" /\ WroteTable(q))
      => current_time[p] >= current_time[q]

\* C25: under concurrent calls, CACHE_TIMESTAMP never decreases, and the table
\* fetched by a call that started earlier never replaces the table stored by
\* a call that started later.
C25_StoresFollowCallOrder ==
  [][TimestampNeverDecreases /\ LaterTableNeverOverwritten]_vars

C25_TimestampPart == [][TimestampNeverDecreases]_vars

C25_TablePart == [][LaterTableNeverOverwritten]_vars

(***************************************************************************)
(* C26: repeated failures (lines 63-77, 165-177, 190-199)                  *)
(***************************************************************************)
\* The previous call of thread p began on an EMPTY cache or an expired entry
\* and its fetch failed or gave zero rows.
PreviousFetchFailed(p) ==
  /\ prev[p].valid
  /\ prev[p].entry \in {"empty", "expired"}
  /\ prev[p].kind \in {"error", "nosheets", "norows"}

\* C26: after a call that began on an EMPTY cache or an expired entry and
\* whose fetch failed or gave zero rows, the next call finds the cache as the
\* failed call found it (EMPTY, or still expired) and, when it is not forced,
\* goes to the spreadsheet again: it is never served from the cache. By
\* induction this holds for as long as the fetches keep failing.
C26_FailedFetchIsRetried ==
  (PreviousFetchFailed(1) /\ pc[1] # "idle") =>
    /\ entry[1] = prev[1].entry
    /\ ~force_refresh[1] =>
         /\ pc[1] # "hit" /\ ~Served(1)
         /\ pc[1] \notin {"check_data", "check_ts"} => AttemptsFetch(1)

\* Two calls in a row, neither forced, have failed on an expired entry.
C26_Witness ==
  /\ PreviousFetchFailed(1)
  /\ prev[1].entry = "expired"
  /\ ~prev[1].force
  /\ Returned(1)
  /\ ~force_refresh[1]
  /\ kind[1] \in {"error", "nosheets", "norows"}
  /\ Warm

\* The same on an EMPTY cache.
C26_WitnessEmpty ==
  /\ PreviousFetchFailed(1)
  /\ prev[1].entry = "empty"
  /\ Returned(1)
  /\ ~force_refresh[1]
  /\ kind[1] \in {"error", "nosheets", "norows"}

(***************************************************************************)
(* C27: the batch table on the page and the exported Batch Summary (lines  *)
(* 902-987, 1128-1203)                                                     *)
(***************************************************************************)
\* The rows of the exported Batch Summary above its TOTAL row, and that row.
SummaryRows == SubSeq(download.rows, 1, Len(download.rows) - 1)

SummaryTotal == download.rows[Len(download.rows)]

\* Batch name -> Total Enrollments, as a set of pairs, of a sequence of rows
\* of a batch table.
EnrollmentsByBatch(rows) ==
  {<<rows[i]["name"], rows[i]["Total Enrollments"]>> : i \in 1..Len(rows)}

\* C27: whenever the batch table of a filtered table with a batch-name column
\* is on the page and its Batch Summary has been exported, the two list the
\* same batch names with the same Total Enrollments, and the TOTAL row of the
\* export has the enrollment count of the footer of the page.
C27_ExportMatchesPage ==
  (TableShown /\ SummarySent /\ HasCol(filtered_df, "name")) =>
    /\ EnrollmentsByBatch(outputs.data_table.rows) = EnrollmentsByBatch(SummaryRows)
    /\ SummaryTotal["Total Enrollments"] = outputs.data_table.footer.total_enrollments

\* The same for the batches that have at least one row in the filtered
\* table, when some batch name of that table is not a number.
C27_ExportMatchesPageWhereEnrolled ==
  (/\ TableShown /\ SummarySent /\ HasCol(filtered_df, "name")
   /\ "name" \notin InferredNumeric(to_json(filtered_df))) =>
    /\ {e \in EnrollmentsByBatch(outputs.data_table.rows) : e[2] > 0}
         = EnrollmentsByBatch(SummaryRows)
    /\ SummaryTotal["Total Enrollments"] = outputs.data_table.footer.total_enrollments

\* The page shows several batches, one of them with more than one enrollment,
\* and the summary was exported.
C27_Witness ==
  /\ TableShown
  /\ SummarySent
  /\ HasCol(filtered_df, "name")
  /\ Len(SummaryRows) > 1
  /\ \E i \in 1..Len(SummaryRows) : SummaryRows[i]["Total Enrollments"] > 1

(***************************************************************************)
(* C28: where the validity window starts (lines 63-71, 175-180)            *)
(***************************************************************************)
\* The call of thread p has left the tests of lines 65-66 behind.
PastCacheTest(p) == pc[p] \notin {"idle", "check_data", "check_ts"}

\* The call of thread p is being, or has been, served from the cache.
TakesShortcut(p) == pc[p] = "hit" \/ Served(p)

\* C28: when a call has stored its table, CACHE_TIMESTAMP is the clock
\* reading of its entry (line 64), however long the fetch took; a call is
\* served from the cache only when it is made less than 300 s after that
\* reading, and the non-forced call that follows a successful fetch is served
\* exactly when it is made less than 300 s after the fetch began.
C28_WindowStartsAtCallEntry ==
  /\ (Returned(1) /\ kind[1] = "ok") =>
        (CACHE_TIMESTAMP = current_time[1] /\ CACHE_TIMESTAMP <= now)
  /\ TakesShortcut(1) =>
        (CACHE_TIMESTAMP # None /\ current_time[1] - CACHE_TIMESTAMP < CACHE_DURATION)
  /\ (PastCacheTest(1) /\ ~force_refresh[1] /\ prev[1].valid /\ prev[1].kind = "ok") =>
        (TakesShortcut(1) <=> current_time[1] - prev[1].t < CACHE_DURATION)

\* A fetch that took time has stored its table: the stored timestamp is older
\* than the clock at the moment of the return.
C28_Witness ==
  /\ Returned(1)
  /\ kind[1] = "ok"
  /\ now >= current_time[1] + TickStep
  /\ CACHE_TIMESTAMP = current_time[1]

\* The call made 300 s after a successful fetch began has fetched again.
C28_WitnessExpired ==
  /\ Returned(1)
  /\ ~force_refresh[1]
  /\ prev[1].valid
  /\ prev[1].kind = "ok"
  /\ current_time[1] - prev[1].t = CACHE_DURATION
  /\ Fetched(1)

(***************************************************************************)
(* C29: the cached table is never empty (lines 31-34, 165-177)             *)
(***************************************************************************)
\* C29: in every state of sequential calls, when DATA_CACHE is set the table
\* it refers to has at least one row, and so had the table that line 176
\* stored.
C29_CachedTableHasRows ==
  Warm => (heap[DATA_CACHE].rows # << >> /\ cachedTable.rows # << >>)

\* After a successful fetch had filled the cache, a later fetch has kept no
\* row and has returned: the cache still holds its rows.
C29_Witness ==
  /\ Warm
  /\ Returned(1)
  /\ kind[1] = "norows"
  /\ at_entry[1].cache # None
  /\ heap[DATA_CACHE].rows # << >>

\* The caller has emptied the table it was handed by the fetch that filled
\* the cache.
C29_WitnessMutated ==
  /\ Warm
  /\ Returned(1)
  /\ kind[1] = "ok"
  /\ heap[df[1]].rows = << >>

(***************************************************************************)
(* C30: the two globals are set together (lines 31-34, 175-177)            *)
(***************************************************************************)
\* The sequential caller is between line 176 and line 177, which follow each
\* other with nothing in between that can raise or return.
BetweenStores == pc[1] = "store_ts"

\* C30: in every state that sequential calls reach, whether the caller is
\* between two calls or at any step of a call other than between the two
\* assignments of lines 176-177, DATA_CACHE is None if and only if
\* CACHE_TIMESTAMP is None.
C30_BothSetOrBothNone ==
  ~BetweenStores => (DATA_CACHE = None <=> CACHE_TIMESTAMP = None)

\* The first successful fetch has set both globals.
C30_Witness ==
  /\ Returned(1)
  /\ kind[1] = "ok"
  /\ at_entry[1].cache = None
  /\ at_entry[1].timestamp = None
  /\ DATA_CACHE # None
  /\ CACHE_TIMESTAMP # None

\* The state between the two assignments of the first store.
C30_BetweenFirstStores ==
  ~(BetweenStores /\ DATA_CACHE # None /\ CACHE_TIMESTAMP = None)
=============================================================================
